---- MODULE Spec2Model ----
(***************************************************************************)
(* A state-machine model of the Vulkan render system of                    *)
(* Noofbiz/vulkanRenderSystem: the lifecycle New -> Update* -> Cleanup of  *)
(* RenderSystem, the resize listener, the texture loader, and the GPU that *)
(* completes queue submissions; and, each under a specification of its    *)
(* own, the staged uploads call by call (SpecStaging), what createSwapChain*)
(* asks for (SpecSwapChain) and the device loop of initVulkan              *)
(* (SpecDevices).                                                          *)
(*                                                                         *)
(* src/cleanup.go holds several revisions of the package one after the     *)
(* other; the model follows the latest revision of each function           *)
(* (RenderSystem at lines 755-2000, the texture loader at 2045-2287) and   *)
(* Cleanup / cleanupSwapChain of src/unnamed/part_000.                     *)
(***************************************************************************)
EXTENDS Integers, Sequences, FiniteSets, TLC

VARIABLES
    theRenderSystem,     \* the package-level *RenderSystem: "nil" or "r"
    phase,               \* "none" before New, "running" after New, "cleaned" after Cleanup
    pc,                  \* position of the render thread inside Update ("idle" between calls)
    panicAt,             \* the function whose panic ended the process, or "none"
    lock,                \* holder of r.lock: "free", "render" or "notifier"
    notifier,            \* position of the WindowResizeMessage listener
    framebufferResized,  \* r.framebufferResized
    currentFrame,        \* r.currentFrame
    imageIndex,          \* the local imageIndex of Update
    inFlightFences,      \* r.inFlightFences: slot -> TRUE when signaled
    inFlight,            \* queue submissions the GPU has not completed yet, in submission order
    images,              \* len(r.images): the number of swapchain images
    swapChainImageViews, \* len(r.swapChainImageViews)
    swapChainFramebuffers, \* r.swapChainFramebuffers: the swapchain each was created for,
                         \* "current" for r.swapChain with its format and extent
    swapChainFault,      \* the Vulkan call that failed in the last build of the swapchain, or "none"
    uniformBuffers,      \* len(r.uniformBuffers) = len(r.uniformBuffersMemory)
    vertexData,          \* TRUE when r.vertexBuffer and r.indexBuffer hold the staged data
    descriptorSets,      \* r.descriptorSets: what each set binds
    commandBuffers,      \* r.commandBuffers: what each recorded buffer references
    alive,               \* the GPU objects created and not destroyed
    destroyLog,          \* the calls Cleanup made, in order
    registry,            \* theTextureLoader.images: url -> texture
    imagesToAdd,         \* the package-level queue imagesToAdd
    nextTex,             \* number of Texture objects created so far
    cycle,               \* the calls the current (or last) Update made, in order
    cycleSlot,           \* r.currentFrame when the current (or last) Update was entered
    signals,             \* flag writes by the listener since the render thread last read the flag
    observed,            \* value of signals when the current (or last) Update read the flag
    frames,              \* number of Update calls entered
    uboHazard,           \* submissions in flight that read the uniform buffer Update last wrote, at the write
    uploading,           \* the staged upload being made: "vertex", "index", "texture" or "none"
    uploadPc,            \* number of the next call of the upload
    uploadResult,        \* "running", or how the upload ended: "returned", "error", "panic"
    uploadLog,           \* the calls the upload made, in order
    recording,           \* the command recorded in the one-time command buffer
    graphicsQueue,       \* commands submitted to r.graphicsQueue the GPU has not executed yet
    stagingBuffer,       \* the staging buffer: "null", "created" or "destroyed"
    layout,              \* layout of the texture image
    destData,            \* content of the destination: "none", "staged" or "undefined"
    details,             \* the package-level swapChainSupportDetails
    window,              \* engo.CanvasWidth() and engo.CanvasHeight(), as uint32
    createInfos,         \* the vk.SwapchainCreateInfo records createSwapChain built
    surfaceCapabilities, \* what vkGetPhysicalDeviceSurfaceCapabilitiesKHR would report now
    devicePc,            \* position of initVulkan in its loop over the physical devices
    examined,            \* number of devices the loop has taken
    device,              \* what the queries report for the device being examined
    families,            \* the queue families of that device examined so far
    graphicsSupport,     \* the local graphicsSupport
    presentSupport,      \* the local presentSupport
    graphicsIdx,         \* r.graphicsIdx
    presentIdx,          \* r.presentIdx
    gpu,                 \* r.gpu and physicalDevice: number of the device selected, 0 for none
    deviceSelected,      \* the local deviceSelected
    readFrom,            \* the device each index and each part of details was read from
    initError,           \* the error of the device loop, "none" for none
    memoryTypes,         \* the flags of each memory type of r.gpu
    typeFilter,          \* the parameter typeFilter of findMemoryType
    properties,          \* the parameter properties of createBuffer and findMemoryType
    bufferResults,       \* what the calls of createBuffer returned
    resources,           \* theTextureLoader.images: url -> TextureResource with its fields
    decoded,             \* the width and height of the image each Texture was made from
    loaderCalls,         \* the calls of Load, Unload and Resource with what they returned
    loaderPc,            \* "idle", or "panic" once a loader call panicked
    ignoredNews,         \* calls of New that found a render system already added
    staleCalls           \* Vulkan calls made on r.device after vk.DestroyDevice

swapChainVars ==
    <<images, swapChainImageViews, swapChainFramebuffers, swapChainFault>>

renderVars == <<theRenderSystem, phase, pc, lock, notifier, framebufferResized, currentFrame,
          imageIndex, inFlightFences, inFlight, swapChainVars, uniformBuffers, vertexData,
          descriptorSets, commandBuffers, alive, destroyLog, registry, imagesToAdd, nextTex, cycle,
          cycleSlot, panicAt, signals, observed, frames, uboHazard>>

stagingVars ==
    <<uploading, uploadPc, uploadResult, uploadLog, recording, graphicsQueue, stagingBuffer,
      layout, destData>>

swapChainInfoVars == <<details, window, createInfos, surfaceCapabilities>>

\* What the procedures New runs once, modelled call by call, keep.
deviceVars ==
    <<devicePc, examined, device, families, graphicsSupport, presentSupport, graphicsIdx,
      presentIdx, gpu, deviceSelected, readFrom, initError>>

memoryVars == <<memoryTypes, typeFilter, properties, bufferResults>>

loaderVars == <<resources, decoded, loaderCalls, loaderPc>>

instanceVars == <<ignoredNews, staleCalls>>

initVars == <<stagingVars, swapChainInfoVars, deviceVars, memoryVars, loaderVars, instanceVars>>

vars == <<renderVars, initVars>>

(***************************************************************************)
(* Bounds of the model.                                                    *)
(***************************************************************************)
MaxFrames == 4      \* Update calls per run
MaxImages == 2      \* most images a swapchain is created with
MaxSignals == 2     \* resize signals counted between two reads of the flag
MaxLoads == 1       \* Texture objects created per run
MaxFormats == 3     \* surface formats a device reports
MaxModes == 3       \* present modes a device reports
MaxValue == 1       \* largest of the small extents and image counts a device reports
MaxDevices == 2     \* physical devices enumerated
MaxFamilies == 2    \* queue families of a physical device
MaxBuilds == 2      \* calls of createSwapChain: the one of New and those of rebuilds
MaxTypes == 2       \* memory types of the physical device
MaxCalls == 3       \* calls of the texture loader in a run of the loader alone
MaxNews == 1        \* calls of New on a RenderSystem other than the first

(***************************************************************************)
(* Program constants.                                                      *)
(***************************************************************************)
maxFramesInFlight == 2

Slots == 0 .. (maxFramesInFlight - 1)
ImageCounts == 1 .. MaxImages
Urls == {[name |-> "a", ext |-> ".png"], [name |-> "b", ext |-> ".svg"]}

Obj(k, i) == [kind |-> k, idx |-> i]
Objs(k, n) == {Obj(k, i) : i \in 0 .. (n - 1)}
Call(o, a) == [op |-> o, args |-> a]
Ops(log) == [j \in 1 .. Len(log) |-> log[j].op]
RemoveAt(s, j) == SubSeq(s, 1, j - 1) \o SubSeq(s, j + 1, Len(s))
Range(s) == {s[j] : j \in 1 .. Len(s)}

getExt(url) == url.ext

(***************************************************************************)
(* The state before New: the zero value of RenderSystem and the package    *)
(* variables as the package's init() leaves them.                          *)
(***************************************************************************)
InitRender ==
    /\ theRenderSystem = "nil"
    /\ phase = "none"
    /\ pc = "idle"
    /\ panicAt = "none"
    /\ lock = "free"
    /\ notifier = "idle"
    /\ framebufferResized = FALSE
    /\ currentFrame = 0
    /\ imageIndex = 0
    /\ inFlightFences = [i \in Slots |-> FALSE]
    /\ inFlight = <<>>
    /\ images = 0
    /\ swapChainImageViews = 0
    /\ swapChainFramebuffers = <<>>
    /\ swapChainFault = "none"
    /\ uniformBuffers = 0
    /\ vertexData = FALSE
    /\ descriptorSets = <<>>
    /\ commandBuffers = <<>>
    /\ alive = {}
    /\ destroyLog = <<>>
    /\ registry = <<>>
    /\ imagesToAdd = <<>>
    /\ nextTex = 0
    /\ cycle = <<>>
    /\ cycleSlot = 0
    /\ signals = 0
    /\ observed = 0
    /\ frames = 0
    /\ uboHazard = {}

(***************************************************************************)
(* The texture loader.                                                     *)
(***************************************************************************)
\* textureLoader.Load once theRenderSystem is set: the registry and texture
\* count after the call, and whether it returned an error or panicked
\* inside NewTextureResource.
LoadResult(url, reg, n, decodeOK, uploadOK) ==
    IF getExt(url) = ".svg" \/ ~decodeOK
    THEN [images |-> reg, nextTex |-> n, err |-> TRUE, panic |-> FALSE]
    ELSE IF ~uploadOK
    THEN [images |-> reg, nextTex |-> n, err |-> FALSE, panic |-> TRUE]
    ELSE [images |-> [u \in (DOMAIN reg) \cup {url} |-> IF u = url THEN n ELSE reg[u]],
          nextTex |-> n + 1, err |-> FALSE, panic |-> FALSE]

\* The objects of the Textures created with ids from..to-1.
TextureObjects(from, to) == {Obj("texture", t) : t \in from .. (to - 1)}

\* Load(url, data), called by the game between two Update calls.
Load(url, decodeOK, uploadOK) ==
    /\ pc = "idle"
    /\ IF theRenderSystem = "nil"
       THEN /\ Len(imagesToAdd) < MaxLoads
            /\ imagesToAdd' = Append(imagesToAdd, url)
            /\ UNCHANGED <<registry, nextTex, alive, pc>>
       ELSE /\ nextTex < MaxLoads
            /\ phase = "running"
            /\ LET res == LoadResult(url, registry, nextTex, decodeOK, uploadOK) IN
                /\ registry' = res.images
                /\ nextTex' = res.nextTex
                /\ alive' = alive \cup TextureObjects(nextTex, res.nextTex)
                /\ pc' = IF res.panic THEN "panic" ELSE pc
            /\ UNCHANGED imagesToAdd
    /\ UNCHANGED <<theRenderSystem, phase, lock, notifier, framebufferResized, currentFrame,
                   imageIndex, inFlightFences, inFlight, swapChainVars, uniformBuffers, vertexData,
                   descriptorSets, commandBuffers, destroyLog, cycle, cycleSlot, signals,
                   observed, frames, uboHazard>>
    /\ panicAt' = IF pc' = "panic" THEN "Load" ELSE panicAt
    /\ UNCHANGED initVars

\* Unload(url): t.images[url] of a missing url is the zero TextureResource,
\* whose nil Texture is dereferenced by Destroy; theRenderSystem.device of a
\* nil theRenderSystem is a nil dereference as well.
Unload(url) ==
    /\ pc = "idle"
    /\ phase \in {"none", "running"}
    /\ IF theRenderSystem = "nil" \/ url \notin DOMAIN registry
       THEN /\ pc' = "panic"
            /\ UNCHANGED <<registry, alive>>
       ELSE /\ alive' = alive \ {Obj("texture", registry[url])}
            /\ registry' = [u \in (DOMAIN registry) \ {url} |-> registry[u]]
            /\ UNCHANGED pc
    /\ UNCHANGED <<theRenderSystem, phase, lock, notifier, framebufferResized, currentFrame,
                   imageIndex, inFlightFences, inFlight, swapChainVars, uniformBuffers, vertexData,
                   descriptorSets, commandBuffers, destroyLog, imagesToAdd, nextTex, cycle,
                   cycleSlot, signals, observed, frames, uboHazard>>
    /\ panicAt' = IF pc' = "panic" THEN "Unload" ELSE panicAt
    /\ UNCHANGED initVars

(***************************************************************************)
(* RenderSystem.New and the creation steps it runs.                        *)
(***************************************************************************)
\* Mutant of createTextureImage: the queue is dropped without a request.
createTextureImageNoRequest(queue, reg, n, decodeOK, uploadOK) ==
    [images |-> reg, nextTex |-> n, err |-> FALSE, panic |-> FALSE]

\* createTextureImage: engo.Files.Load of every queued url, in order, which
\* comes back to textureLoader.Load with theRenderSystem set; the first
\* error is returned and the queue is emptied only when there was none.
RECURSIVE createTextureImage(_, _, _, _, _)
createTextureImage(queue, reg, n, decodeOK, uploadOK) ==
    IF queue = <<>>
    THEN [images |-> reg, nextTex |-> n, err |-> FALSE, panic |-> FALSE]
    ELSE LET res == LoadResult(Head(queue), reg, n, decodeOK, uploadOK) IN
         IF res.err \/ res.panic
         THEN res
         ELSE createTextureImage(Tail(queue), res.images, res.nextTex, decodeOK, uploadOK)

\* vkCmdBindDescriptorSets(buffer, ..., firstSet 0, descriptorSetCount 1,
\* r.descriptorSets, ...): the one set bound is the first element of the
\* slice, whatever the index idx of the buffer being recorded.
BoundDescriptorSet(idx) == 0

\* createCommandBuffers: one buffer per framebuffer, recorded with
\* r.swapChainExtent as its render area unless recording failed.
createCommandBuffers(n, rec) ==
    [j \in 1 .. n |-> [framebuffer |-> j - 1, descriptorSet |-> BoundDescriptorSet(j - 1),
                       extent |-> "current", recorded |-> rec]]

\* createFrameBuffers: one framebuffer per image view, of r.swapChainExtent;
\* the slice keeps its zero values when vkCreateFramebuffer fails.
createFrameBuffers(n, made) == [j \in 1 .. n |-> IF made THEN "current" ELSE "null"]

\* createSwapChain replaces r.swapChain, r.swapChainImageFormat and
\* r.swapChainExtent: what was built for the swapchain before is built for a
\* previous one from then on.
Stale(x, made) == IF made /\ x = "current" THEN "previous" ELSE x

(***************************************************************************)
(* The six steps that build the swapchain-scoped state, in New and in      *)
(* recreateSwapChain, and the Vulkan calls of theirs that may fail. One    *)
(* build sees at most one call fail.                                       *)
(***************************************************************************)
BuildSteps ==
    <<"createSwapChain", "createImageViews", "createRenderPass", "createGraphicsPipeline",
      "createFrameBuffers", "createCommandBuffers">>

\* The calls that may fail, in the order New makes them; recreateSwapChain
\* makes those of BuildFaults, in the same order.
FaultCalls ==
    <<"CreateSwapchain", "CreateImageView", "CreateRenderPass", "CreatePipelineLayout",
      "CreateGraphicsPipelines", "CreateFramebuffer", "Files.Load", "CreateBuffer",
      "copyBuffer", "AllocateCommandBuffers", "BeginCommandBuffer">>

NewFaults == {"none"} \cup {FaultCalls[j] : j \in 1 .. Len(FaultCalls)}
BuildFaults == NewFaults \ {"Files.Load", "CreateBuffer", "copyBuffer"}

Pos(c) == CHOOSE j \in 1 .. Len(FaultCalls) : FaultCalls[j] = c

\* The step a call belongs to.
StepOf(c) ==
    CASE c = "CreateSwapchain" -> 1
      [] c = "CreateImageView" -> 2
      [] c = "CreateRenderPass" -> 3
      [] c \in {"CreatePipelineLayout", "CreateGraphicsPipelines"} -> 4
      [] c = "CreateFramebuffer" -> 5
      [] c \in {"AllocateCommandBuffers", "BeginCommandBuffer"} -> 6

\* The failures their step returns as an error. createGraphicsPipeline and
\* createCommandBuffers build an error value for a failed
\* vkCreateGraphicsPipelines and vkAllocateCommandBuffers and drop it;
\* createVertexBuffer and createIndexBuffer ignore what copyBuffer returns.
Returns(f) ==
    f \in NewFaults \ {"none", "CreateGraphicsPipelines", "AllocateCommandBuffers",
                       "copyBuffer"}

\* Call c is reached when f is the call that fails.
Reached(c, f) == Returns(f) => Pos(c) <= Pos(f)

\* Call c is made and succeeds when f is the call that fails.
Made(c, f) == c # f /\ (Returns(f) => Pos(c) < Pos(f))

\* The number of steps that are run when f is the call that fails.
StepsRun(f) == IF Returns(f) THEN StepOf(f) ELSE Len(BuildSteps)

\* The objects a build for n images leaves created when f fails.
BuiltObjects(n, f) ==
    (IF Made("CreateSwapchain", f) THEN {Obj("swapChain", 0)} ELSE {})
    \cup (IF Made("CreateImageView", f) THEN Objs("imageView", n) ELSE {})
    \cup (IF Made("CreateRenderPass", f) THEN {Obj("renderPass", 0)} ELSE {})
    \cup (IF Made("CreatePipelineLayout", f) THEN {Obj("pipelineLayout", 0)} ELSE {})
    \cup (IF Made("CreateGraphicsPipelines", f) THEN {Obj("pipeline", 0)} ELSE {})
    \cup (IF Made("CreateFramebuffer", f) THEN Objs("framebuffer", n) ELSE {})
    \cup (IF Made("AllocateCommandBuffers", f) THEN Objs("commandBuffer", n) ELSE {})

\* createDescriptorSets: set i binds uniform buffer i at binding 0 and every
\* texture of the registry at binding 1.
createDescriptorSets(n, reg) ==
    [j \in 1 .. n |-> [uniformBuffer |-> j - 1, textures |-> {reg[u] : u \in DOMAIN reg}]]

\* Mutant of createSyncObjects: the fences are created unsignaled.
createSyncObjectsUnsignaled == [i \in Slots |-> FALSE]

\* createSyncObjects: FenceCreateSignaledBit.
createSyncObjects == [i \in Slots |-> TRUE]

\* The objects New leaves created for n swapchain images when f is the call
\* that fails: those of the steps before the failing one, and of the steps
\* after it when its failure is not returned.
NewObjects(n, f) ==
    {Obj("instance", 0), Obj("surface", 0), Obj("device", 0)}
    \cup BuiltObjects(n, f)
    \cup (IF Reached("CreatePipelineLayout", f) THEN {Obj("descriptorSetLayout", 0)} ELSE {})
    \cup (IF Reached("Files.Load", f) THEN {Obj("commandPool", 0)} ELSE {})
    \cup (IF Made("CreateBuffer", f)
          THEN {Obj("vertexBuffer", 0), Obj("vertexBufferMemory", 0)} ELSE {})
    \cup (IF Reached("AllocateCommandBuffers", f)
          THEN {Obj("indexBuffer", 0), Obj("indexBufferMemory", 0), Obj("descriptorPool", 0)}
               \cup Objs("uniformBuffer", n) \cup Objs("uniformBufferMemory", n)
               \cup Objs("descriptorSet", n)
          ELSE {})
    \cup (IF ~Returns(f)
          THEN Objs("imageAvailableSemaphore", maxFramesInFlight)
               \cup Objs("renderFinishedSemaphore", maxFramesInFlight)
               \cup Objs("inFlightFence", maxFramesInFlight)
          ELSE {})

\* New(w) on the first RenderSystem: the swapchain comes back with n
\* images, and call f fails (f = "Files.Load": a queued texture fails to
\* decode or to upload). A step that returns an error panics. After a failed
\* vkAllocateCommandBuffers the recording goes on with handles that were
\* never allocated, which either goes unnoticed or aborts the process.
New(n, f, abort, decodeOK, uploadOK) ==
    /\ theRenderSystem = "nil"
    /\ phase = "none"
    /\ pc = "idle"
    /\ (f = "Files.Load") = ~(decodeOK /\ uploadOK)
    /\ abort => f = "AllocateCommandBuffers"
    /\ theRenderSystem' = "r"
    /\ LET tex == IF Reached("Files.Load", f)
                  THEN createTextureImage(imagesToAdd, registry, nextTex, decodeOK, uploadOK)
                  ELSE [images |-> registry, nextTex |-> nextTex, err |-> FALSE,
                        panic |-> FALSE]
           g == IF tex.err \/ tex.panic THEN "Files.Load" ELSE f
           done == ~Returns(g) /\ ~abort
           views == IF Reached("CreateImageView", g) /\ Made("CreateSwapchain", g)
                    THEN n ELSE 0
           late == Reached("AllocateCommandBuffers", g)
       IN
        /\ f = "Files.Load" => (tex.err \/ tex.panic)
        /\ registry' = tex.images
        /\ nextTex' = tex.nextTex
        /\ imagesToAdd' = IF Reached("Files.Load", g) /\ g # "Files.Load"
                          THEN <<>> ELSE imagesToAdd
        /\ images' = IF Made("CreateSwapchain", g) THEN n ELSE 0
        /\ swapChainImageViews' = views
        /\ swapChainFramebuffers' =
               IF Reached("CreateFramebuffer", g)
               THEN createFrameBuffers(views, Made("CreateFramebuffer", g))
               ELSE <<>>
        /\ swapChainFault' = IF g \in BuildFaults THEN g ELSE "none"
        /\ uniformBuffers' = IF late THEN n ELSE 0
        /\ vertexData' = Made("copyBuffer", g)
        /\ descriptorSets' = IF late THEN createDescriptorSets(n, tex.images) ELSE <<>>
        /\ commandBuffers' =
               IF late
               THEN createCommandBuffers(n, Made("AllocateCommandBuffers", g)
                                            /\ Made("BeginCommandBuffer", g))
               ELSE <<>>
        /\ inFlightFences' = IF done THEN createSyncObjects ELSE inFlightFences
        /\ alive' = alive \cup TextureObjects(nextTex, tex.nextTex)
                          \cup {o \in NewObjects(n, g) : o \in NewObjects(n, f)}
        /\ phase' = IF done THEN "running" ELSE phase
        /\ pc' = IF done THEN pc ELSE "panic"
    /\ UNCHANGED <<lock, notifier, framebufferResized, currentFrame, imageIndex, inFlight,
                   destroyLog, cycle, cycleSlot, signals, observed, frames, uboHazard>>
    /\ panicAt' = IF pc' = "panic" THEN "New" ELSE panicAt
    /\ UNCHANGED initVars

(***************************************************************************)
(* The WindowResizeMessage listener New registers: Lock, set, Unlock, on   *)
(* the thread that dispatches the message.                                 *)
(***************************************************************************)
\* Mutant of NotifierLock: the listener does not wait for the mutex.
NotifierLockNoWait ==
    /\ theRenderSystem = "r"
    /\ notifier = "idle"
    /\ signals < MaxSignals
    /\ lock' = "notifier"
    /\ notifier' = "set"
    /\ UNCHANGED <<theRenderSystem, phase, pc, framebufferResized, currentFrame, imageIndex,
                   inFlightFences, inFlight, swapChainVars, uniformBuffers, vertexData,
                   descriptorSets, commandBuffers, alive, destroyLog, registry, imagesToAdd,
                   nextTex, cycle, cycleSlot, panicAt, signals, observed, frames, uboHazard>>
    /\ UNCHANGED initVars

NotifierLock ==
    /\ theRenderSystem = "r"
    /\ notifier = "idle"
    /\ lock = "free"
    /\ signals < MaxSignals
    /\ lock' = "notifier"
    /\ notifier' = "set"
    /\ UNCHANGED <<theRenderSystem, phase, pc, framebufferResized, currentFrame, imageIndex,
                   inFlightFences, inFlight, swapChainVars, uniformBuffers, vertexData, descriptorSets,
                   commandBuffers, alive, destroyLog, registry, imagesToAdd, nextTex, cycle,
                   cycleSlot, panicAt, signals, observed, frames, uboHazard>>
    /\ UNCHANGED initVars

NotifierSet ==
    /\ notifier = "set"
    /\ framebufferResized' = TRUE
    /\ signals' = signals + 1
    /\ notifier' = "unlock"
    /\ UNCHANGED <<theRenderSystem, phase, pc, lock, currentFrame, imageIndex,
                   inFlightFences, inFlight, swapChainVars, uniformBuffers, vertexData, descriptorSets,
                   commandBuffers, alive, destroyLog, registry, imagesToAdd, nextTex, cycle,
                   cycleSlot, panicAt, observed, frames, uboHazard>>
    /\ UNCHANGED initVars

NotifierUnlock ==
    /\ notifier = "unlock"
    /\ lock' = "free"
    /\ notifier' = "idle"
    /\ UNCHANGED <<theRenderSystem, phase, pc, framebufferResized, currentFrame, imageIndex,
                   inFlightFences, inFlight, swapChainVars, uniformBuffers, vertexData, descriptorSets,
                   commandBuffers, alive, destroyLog, registry, imagesToAdd, nextTex, cycle,
                   cycleSlot, panicAt, signals, observed, frames, uboHazard>>
    /\ UNCHANGED initVars

(***************************************************************************)
(* Teardown of the swapchain-scoped objects.                               *)
(***************************************************************************)
Destroy(c, k, i) == [call |-> c, obj |-> Obj(k, i)]
DestroyEach(c, k, n) == [j \in 1 .. n |-> Destroy(c, k, j - 1)]
Destroyed(calls) == {calls[j].obj : j \in 1 .. Len(calls)}

\* Mutant of cleanupSwapChain: the swapchain and the image views go first.
cleanupSwapChainViewsFirst(fb, cb, iv) ==
    <<Destroy("DestroySwapchain", "swapChain", 0)>>
    \o DestroyEach("DestroyImageView", "imageView", iv)
    \o DestroyEach("DestroyFramebuffer", "framebuffer", fb)
    \o DestroyEach("FreeCommandBuffers", "commandBuffer", cb)
    \o <<Destroy("DestroyPipeline", "pipeline", 0),
         Destroy("DestroyPipelineLayout", "pipelineLayout", 0),
         Destroy("DestroyRenderPass", "renderPass", 0)>>

\* cleanupSwapChain with fb framebuffers, cb command buffers and iv image
\* views in the slices of r.
cleanupSwapChain(fb, cb, iv) ==
    DestroyEach("DestroyFramebuffer", "framebuffer", fb)
    \o DestroyEach("FreeCommandBuffers", "commandBuffer", cb)
    \o <<Destroy("DestroyPipeline", "pipeline", 0),
         Destroy("DestroyPipelineLayout", "pipelineLayout", 0),
         Destroy("DestroyRenderPass", "renderPass", 0)>>
    \o DestroyEach("DestroyImageView", "imageView", iv)
    \o <<Destroy("DestroySwapchain", "swapChain", 0)>>

\* Mutant of DeviceWaitIdle: the call returns at once.
DeviceWaitIdleNoWait == TRUE

\* vk.DeviceWaitIdle(r.device) returns once no submission is executing.
DeviceWaitIdle == inFlight = <<>>

(***************************************************************************)
(* RenderSystem.Update, one action per blocking call or queue operation.   *)
(***************************************************************************)
\* Mutant of WaitForFences: the call returns without waiting.
WaitForFencesNoWait(f) == TRUE

\* vk.WaitForFences(device, 1, inFlightFences[f:f], True, MaxUint64): the
\* binding is handed the count 1 and the base address of the slice, which is
\* &inFlightFences[f]; the call returns once that fence is signaled.
WaitForFences(f) == inFlightFences[f]

\* currentFrame++; currentFrame %= maxFramesInFlight
NextFrame(f) == (f + 1) % maxFramesInFlight

\* The uniform buffer the command buffer recorded for image k reads.
UniformBufferRead(k) ==
    descriptorSets[commandBuffers[k + 1].descriptorSet + 1].uniformBuffer

\* Mutant of SubmitInfo: the command buffer is picked by frame slot instead
\* of by acquired image.
SubmitInfoByFrame(f, k) ==
    [commandBuffer |-> f, wait |-> f, signal |-> f, fence |-> f,
     uniformBuffer |-> UniformBufferRead(k)]

\* The SubmitInfo and fence of QueueSubmit in slot f for acquired image k.
SubmitInfo(f, k) ==
    [commandBuffer |-> k, wait |-> f, signal |-> f, fence |-> f,
     uniformBuffer |-> UniformBufferRead(k)]

\* Mutant of UpdateLock: the fence wait comes first, before the lock is taken
\* and the flag examined.
UpdateLockWaitFirst ==
    /\ phase = "running"
    /\ pc = "idle"
    /\ frames < MaxFrames
    /\ inFlightFences[currentFrame]
    /\ lock = "free"
    /\ lock' = "render"
    /\ pc' = "check"
    /\ frames' = frames + 1
    /\ cycle' = <<Call("WaitForFences", <<currentFrame>>), Call("Lock", <<>>)>>
    /\ cycleSlot' = currentFrame
    /\ UNCHANGED <<theRenderSystem, phase, notifier, framebufferResized, currentFrame,
                   imageIndex, inFlightFences, inFlight, swapChainVars, uniformBuffers, vertexData,
                   descriptorSets, commandBuffers, alive, destroyLog, registry, imagesToAdd,
                   nextTex, panicAt, signals, observed, uboHazard>>
    /\ UNCHANGED initVars

UpdateLock ==
    /\ phase = "running"
    /\ pc = "idle"
    /\ frames < MaxFrames
    /\ lock = "free"
    /\ lock' = "render"
    /\ pc' = "check"
    /\ frames' = frames + 1
    /\ cycle' = <<Call("Lock", <<>>)>>
    /\ cycleSlot' = currentFrame
    /\ UNCHANGED <<theRenderSystem, phase, notifier, framebufferResized, currentFrame,
                   imageIndex, inFlightFences, inFlight, swapChainVars, uniformBuffers, vertexData,
                   descriptorSets, commandBuffers, alive, destroyLog, registry, imagesToAdd,
                   nextTex, panicAt, signals, observed, uboHazard>>
    /\ UNCHANGED initVars

\* if r.framebufferResized { ... } r.lock.Unlock()
UpdateCheck ==
    /\ pc = "check"
    /\ observed' = signals
    /\ signals' = 0
    /\ IF framebufferResized
       THEN /\ pc' = "recreate"
            /\ UNCHANGED <<lock, cycle>>
       ELSE /\ pc' = "waitFence"
            /\ lock' = "free"
            /\ cycle' = Append(cycle, Call("Unlock", <<>>))
    /\ UNCHANGED <<theRenderSystem, phase, notifier, framebufferResized, currentFrame,
                   imageIndex, inFlightFences, inFlight, swapChainVars, uniformBuffers, vertexData,
                   descriptorSets, commandBuffers, alive, destroyLog, registry, imagesToAdd,
                   nextTex, cycleSlot, panicAt, frames, uboHazard>>
    /\ UNCHANGED initVars

\* r.recreateSwapChain(): DeviceWaitIdle, cleanupSwapChain, then the six
\* build steps up to the first that returns an error; the new swapchain
\* comes back with n images and call f fails. Update drops the error recreateSwapChain returns. A call fails
\* only in a run where every call before has succeeded.
recreateSwapChain(n, f, abort) ==
    /\ pc = "recreate"
    /\ DeviceWaitIdle
    /\ abort => f = "AllocateCommandBuffers"
    /\ f # "none" => (swapChainFault = "none" /\ vertexData)
    /\ LET torn == cleanupSwapChain(Len(swapChainFramebuffers), Len(commandBuffers),
                                    swapChainImageViews)
           made == Made("CreateSwapchain", f)
           views == IF Reached("CreateImageView", f) /\ made
                    THEN n ELSE swapChainImageViews
           buffers == IF Reached("CreateFramebuffer", f)
                      THEN createFrameBuffers(views, Made("CreateFramebuffer", f))
                      ELSE [j \in 1 .. Len(swapChainFramebuffers) |->
                               Stale(swapChainFramebuffers[j], made)]
       IN
        /\ alive' = (alive \ Destroyed(torn)) \cup BuiltObjects(n, f)
        /\ images' = IF made THEN n ELSE images
        /\ swapChainImageViews' = views
        /\ swapChainFramebuffers' = buffers
        /\ commandBuffers' =
               IF Reached("AllocateCommandBuffers", f)
               THEN createCommandBuffers(Len(buffers),
                        Made("AllocateCommandBuffers", f) /\ Made("BeginCommandBuffer", f))
               ELSE [j \in 1 .. Len(commandBuffers) |->
                        [commandBuffers[j] EXCEPT
                            !.extent = Stale(commandBuffers[j].extent, made)]]
        /\ swapChainFault' = f
        /\ cycle' = cycle \o <<Call("DeviceWaitIdle", <<>>), Call("cleanupSwapChain", torn)>>
                          \o [j \in 1 .. StepsRun(f) |-> Call(BuildSteps[j], <<>>)]
        /\ pc' = IF abort THEN "panic" ELSE "clear"
    /\ UNCHANGED <<theRenderSystem, phase, lock, notifier, framebufferResized, currentFrame,
                   imageIndex, inFlightFences, inFlight, uniformBuffers, vertexData,
                   descriptorSets, destroyLog, registry, imagesToAdd, nextTex, cycleSlot,
                   signals, observed, frames, uboHazard>>
    /\ panicAt' = IF pc' = "panic" THEN "Update" ELSE panicAt
    /\ UNCHANGED initVars

\* Mutant of UpdateClearFlag: the flag is left set.
UpdateClearFlagKeep ==
    /\ pc = "clear"
    /\ lock' = "free"
    /\ cycle' = cycle \o <<Call("clearFlag", <<>>), Call("Unlock", <<>>)>>
    /\ pc' = "idle"
    /\ UNCHANGED <<theRenderSystem, phase, notifier, framebufferResized, currentFrame,
                   imageIndex, inFlightFences, inFlight, swapChainVars, uniformBuffers, vertexData,
                   descriptorSets, commandBuffers, alive, destroyLog, registry, imagesToAdd,
                   nextTex, cycleSlot, panicAt, signals, observed, frames, uboHazard>>
    /\ UNCHANGED initVars

\* Mutant of UpdateClearFlag: the return is missing and the cycle goes on.
UpdateClearFlagNoReturn ==
    /\ pc = "clear"
    /\ framebufferResized' = FALSE
    /\ lock' = "free"
    /\ cycle' = cycle \o <<Call("clearFlag", <<>>), Call("Unlock", <<>>)>>
    /\ pc' = "waitFence"
    /\ UNCHANGED <<theRenderSystem, phase, notifier, currentFrame, imageIndex,
                   inFlightFences, inFlight, swapChainVars, uniformBuffers, vertexData, descriptorSets,
                   commandBuffers, alive, destroyLog, registry, imagesToAdd, nextTex,
                   cycleSlot, panicAt, signals, observed, frames, uboHazard>>
    /\ UNCHANGED initVars

\* r.framebufferResized = false; r.lock.Unlock(); return
UpdateClearFlag ==
    /\ pc = "clear"
    /\ framebufferResized' = FALSE
    /\ lock' = "free"
    /\ cycle' = cycle \o <<Call("clearFlag", <<>>), Call("Unlock", <<>>)>>
    /\ pc' = "idle"
    /\ UNCHANGED <<theRenderSystem, phase, notifier, currentFrame, imageIndex,
                   inFlightFences, inFlight, swapChainVars, uniformBuffers, vertexData, descriptorSets,
                   commandBuffers, alive, destroyLog, registry, imagesToAdd, nextTex,
                   cycleSlot, panicAt, signals, observed, frames, uboHazard>>
    /\ UNCHANGED initVars

UpdateWaitFence ==
    /\ pc = "waitFence"
    /\ WaitForFences(currentFrame)
    /\ cycle' = Append(cycle, Call("WaitForFences", <<currentFrame>>))
    /\ pc' = "acquire"
    /\ UNCHANGED <<theRenderSystem, phase, lock, notifier, framebufferResized, currentFrame,
                   imageIndex, inFlightFences, inFlight, swapChainVars, uniformBuffers, vertexData,
                   descriptorSets, commandBuffers, alive, destroyLog, registry, imagesToAdd,
                   nextTex, cycleSlot, panicAt, signals, observed, frames, uboHazard>>
    /\ UNCHANGED initVars

\* Mutant of UpdateAcquire: a failed acquire is tried again.
UpdateAcquireRetry(k, ok) ==
    /\ pc = "acquire"
    /\ k < images
    /\ IF ok
       THEN /\ imageIndex' = k
            /\ cycle' = Append(cycle, Call("AcquireNextImage", <<currentFrame, k>>))
            /\ pc' = "uniform"
       ELSE /\ cycle' = Append(cycle, Call("failed", <<"AcquireNextImage">>))
            /\ UNCHANGED <<imageIndex, pc>>
    /\ UNCHANGED <<theRenderSystem, phase, lock, notifier, framebufferResized, currentFrame,
                   inFlightFences, inFlight, swapChainVars, uniformBuffers, vertexData,
                   descriptorSets, commandBuffers, alive, destroyLog, registry, imagesToAdd,
                   nextTex, cycleSlot, signals, observed, frames, uboHazard>>
    /\ panicAt' = IF pc' = "panic" THEN "Update" ELSE panicAt
    /\ UNCHANGED initVars

\* vk.AcquireNextImage(..., imageAvailableSemaphores[currentFrame], NullFence,
\* &imageIndex): the presentation engine picks the image; a result other
\* than Success panics.
UpdateAcquire(k, ok) ==
    /\ pc = "acquire"
    /\ k < images
    /\ IF ok
       THEN /\ imageIndex' = k
            /\ cycle' = Append(cycle, Call("AcquireNextImage", <<currentFrame, k>>))
            /\ pc' = "uniform"
       ELSE /\ pc' = "panic"
            /\ cycle' = Append(cycle, Call("failed", <<"AcquireNextImage">>))
            /\ UNCHANGED imageIndex
    /\ UNCHANGED <<theRenderSystem, phase, lock, notifier, framebufferResized, currentFrame,
                   inFlightFences, inFlight, swapChainVars, uniformBuffers, vertexData, descriptorSets,
                   commandBuffers, alive, destroyLog, registry, imagesToAdd, nextTex,
                   cycleSlot, signals, observed, frames, uboHazard>>
    /\ panicAt' = IF pc' = "panic" THEN "Update" ELSE panicAt
    /\ UNCHANGED initVars

\* r.updateUniformBuffer(imageIndex): maps and writes
\* uniformBuffersMemory[imageIndex]; an index past the slice panics.
UpdateUniform ==
    /\ pc = "uniform"
    /\ IF imageIndex < uniformBuffers
       THEN /\ uboHazard' = {s \in Range(inFlight) : s.uniformBuffer = imageIndex}
            /\ cycle' = Append(cycle, Call("updateUniformBuffer", <<imageIndex>>))
            /\ pc' = "reset"
       ELSE /\ pc' = "panic"
            /\ UNCHANGED <<uboHazard, cycle>>
    /\ UNCHANGED <<theRenderSystem, phase, lock, notifier, framebufferResized, currentFrame,
                   imageIndex, inFlightFences, inFlight, swapChainVars, uniformBuffers, vertexData,
                   descriptorSets, commandBuffers, alive, destroyLog, registry, imagesToAdd,
                   nextTex, cycleSlot, signals, observed, frames>>
    /\ panicAt' = IF pc' = "panic" THEN "Update" ELSE panicAt
    /\ UNCHANGED initVars

\* The submit info is built with r.commandBuffers[imageIndex], which panics
\* for an index past the slice; then
\* vk.ResetFences(device, 1, inFlightFences[currentFrame:currentFrame])
UpdateResetFence ==
    /\ pc = "reset"
    /\ IF imageIndex < Len(commandBuffers)
       THEN /\ inFlightFences' = [inFlightFences EXCEPT ![currentFrame] = FALSE]
            /\ cycle' = Append(cycle, Call("ResetFences", <<currentFrame>>))
            /\ pc' = "submit"
       ELSE /\ pc' = "panic"
            /\ UNCHANGED <<inFlightFences, cycle>>
    /\ UNCHANGED <<theRenderSystem, phase, lock, notifier, framebufferResized, currentFrame,
                   imageIndex, inFlight, swapChainVars, uniformBuffers, vertexData, descriptorSets,
                   commandBuffers, alive, destroyLog, registry, imagesToAdd, nextTex,
                   cycleSlot, signals, observed, frames, uboHazard>>
    /\ panicAt' = IF pc' = "panic" THEN "Update" ELSE panicAt
    /\ UNCHANGED initVars

\* vk.QueueSubmit(graphicsQueue, 1, submitInfo, inFlightFences[currentFrame])
UpdateSubmit(ok) ==
    /\ pc = "submit"
    /\ IF ok
       THEN LET info == SubmitInfo(currentFrame, imageIndex) IN
            /\ inFlight' = Append(inFlight, info)
            /\ cycle' = Append(cycle, Call("QueueSubmit",
                   <<info.commandBuffer, info.wait, info.signal, info.fence>>))
            /\ pc' = "present"
       ELSE /\ pc' = "panic"
            /\ cycle' = Append(cycle, Call("failed", <<"QueueSubmit">>))
            /\ UNCHANGED inFlight
    /\ UNCHANGED <<theRenderSystem, phase, lock, notifier, framebufferResized, currentFrame,
                   imageIndex, inFlightFences, swapChainVars, uniformBuffers, vertexData, descriptorSets,
                   commandBuffers, alive, destroyLog, registry, imagesToAdd, nextTex,
                   cycleSlot, signals, observed, frames, uboHazard>>
    /\ panicAt' = IF pc' = "panic" THEN "Update" ELSE panicAt
    /\ UNCHANGED initVars

\* vk.QueuePresent(presentQueue, &presentInfo), waiting on signalSemaphores
UpdatePresent(ok) ==
    /\ pc = "present"
    /\ IF ok
       THEN /\ cycle' = Append(cycle, Call("QueuePresent", <<currentFrame, imageIndex>>))
            /\ pc' = "advance"
       ELSE /\ pc' = "panic"
            /\ cycle' = Append(cycle, Call("failed", <<"QueuePresent">>))
    /\ UNCHANGED <<theRenderSystem, phase, lock, notifier, framebufferResized, currentFrame,
                   imageIndex, inFlightFences, inFlight, swapChainVars, uniformBuffers, vertexData,
                   descriptorSets, commandBuffers, alive, destroyLog, registry, imagesToAdd,
                   nextTex, cycleSlot, signals, observed, frames, uboHazard>>
    /\ panicAt' = IF pc' = "panic" THEN "Update" ELSE panicAt
    /\ UNCHANGED initVars

UpdateAdvance ==
    /\ pc = "advance"
    /\ currentFrame' = NextFrame(currentFrame)
    /\ cycle' = Append(cycle, Call("advance", <<>>))
    /\ pc' = "idle"
    /\ UNCHANGED <<theRenderSystem, phase, lock, notifier, framebufferResized, imageIndex,
                   inFlightFences, inFlight, swapChainVars, uniformBuffers, vertexData, descriptorSets,
                   commandBuffers, alive, destroyLog, registry, imagesToAdd, nextTex,
                   cycleSlot, panicAt, signals, observed, frames, uboHazard>>
    /\ UNCHANGED initVars

(***************************************************************************)
(* The GPU: a submission completes, which signals its fence.               *)
(***************************************************************************)
GpuComplete(j) ==
    /\ j \in 1 .. Len(inFlight)
    /\ inFlightFences' = [inFlightFences EXCEPT ![inFlight[j].fence] = TRUE]
    /\ inFlight' = RemoveAt(inFlight, j)
    /\ UNCHANGED <<theRenderSystem, phase, pc, lock, notifier, framebufferResized,
                   currentFrame, imageIndex, swapChainVars, uniformBuffers, vertexData, descriptorSets,
                   commandBuffers, alive, destroyLog, registry, imagesToAdd, nextTex, cycle,
                   cycleSlot, panicAt, signals, observed, frames, uboHazard>>
    /\ UNCHANGED initVars

(***************************************************************************)
(* RenderSystem.Cleanup, called by the scene's Exit between two Updates.   *)
(***************************************************************************)
\* The calls of Cleanup after DeviceWaitIdle.
CleanupCalls(fb, cb, iv) ==
    cleanupSwapChain(fb, cb, iv)
    \o <<Destroy("DestroyBuffer", "vertexBuffer", 0),
         Destroy("FreeMemory", "vertexBufferMemory", 0)>>
    \o <<Destroy("DestroySemaphore", "imageAvailableSemaphore", 0),
         Destroy("DestroySemaphore", "renderFinishedSemaphore", 0),
         Destroy("DestroyFence", "inFlightFence", 0),
         Destroy("DestroySemaphore", "imageAvailableSemaphore", 1),
         Destroy("DestroySemaphore", "renderFinishedSemaphore", 1),
         Destroy("DestroyFence", "inFlightFence", 1)>>
    \o <<Destroy("DestroyCommandPool", "commandPool", 0),
         Destroy("DestroySurface", "surface", 0),
         Destroy("DestroyDevice", "device", 0),
         Destroy("DestroyInstance", "instance", 0)>>

Cleanup ==
    /\ phase = "running"
    /\ pc = "idle"
    /\ DeviceWaitIdle
    /\ LET calls == CleanupCalls(Len(swapChainFramebuffers), Len(commandBuffers),
                                 swapChainImageViews)
       IN /\ destroyLog' = <<Destroy("DeviceWaitIdle", "device", 0)>> \o calls
          /\ alive' = alive \ Destroyed(calls)
    /\ phase' = "cleaned"
    /\ UNCHANGED <<theRenderSystem, pc, lock, notifier, framebufferResized, currentFrame,
                   imageIndex, inFlightFences, inFlight, swapChainVars, uniformBuffers, vertexData,
                   descriptorSets, commandBuffers, registry, imagesToAdd, nextTex, cycle,
                   cycleSlot, panicAt, signals, observed, frames, uboHazard>>
    /\ UNCHANGED initVars

(***************************************************************************)
(* A second RenderSystem, and the texture loader once Cleanup has run.     *)
(* Cleanup leaves theRenderSystem as it is, so both find it set.           *)
(***************************************************************************)
\* Mutant of NewOnSecond: the second RenderSystem takes the place of the first.
NewOnSecondTakesOver ==
    /\ theRenderSystem # "nil"
    /\ pc = "idle"
    /\ ignoredNews < MaxNews
    /\ ignoredNews' = ignoredNews + 1
    /\ theRenderSystem' = "r2"
    /\ UNCHANGED <<phase, pc, lock, notifier, framebufferResized, currentFrame, imageIndex,
                   inFlightFences, inFlight, swapChainVars, uniformBuffers, vertexData,
                   descriptorSets, commandBuffers, alive, destroyLog, registry, imagesToAdd,
                   nextTex, cycle, cycleSlot, panicAt, signals, observed, frames, uboHazard>>
    /\ UNCHANGED <<staleCalls, stagingVars, swapChainInfoVars, deviceVars, memoryVars,
                   loaderVars>>

\* New(w) on another RenderSystem while theRenderSystem is set: it logs
\* "Render System already added." and returns.
NewOnSecond ==
    /\ theRenderSystem # "nil"
    /\ pc = "idle"
    /\ ignoredNews < MaxNews
    /\ ignoredNews' = ignoredNews + 1
    /\ UNCHANGED renderVars
    /\ UNCHANGED <<staleCalls, stagingVars, swapChainInfoVars, deviceVars, memoryVars,
                   loaderVars>>

\* Load(url, data) after Cleanup: theRenderSystem is not nil, so the image
\* is decoded and NewTextureResource creates its staging buffer on
\* r.device, which vk.DestroyDevice has destroyed. What a call on a
\* destroyed device does is undefined: it crashes or fails (the panic of
\* NewTextureResource), or goes through as if the device were there.
LoadCleaned(url, decodeOK, crash) ==
    /\ pc = "idle"
    /\ phase = "cleaned"
    /\ theRenderSystem # "nil"
    /\ nextTex < MaxLoads
    /\ LET res == LoadResult(url, registry, nextTex, decodeOK, ~crash) IN
        /\ registry' = res.images
        /\ nextTex' = res.nextTex
        /\ alive' = alive \cup TextureObjects(nextTex, res.nextTex)
        /\ pc' = IF res.panic THEN "panic" ELSE pc
        /\ staleCalls' = IF res.err THEN staleCalls ELSE staleCalls \cup {"CreateBuffer"}
    /\ UNCHANGED <<theRenderSystem, phase, lock, notifier, framebufferResized, currentFrame,
                   imageIndex, inFlightFences, inFlight, swapChainVars, uniformBuffers, vertexData,
                   descriptorSets, commandBuffers, destroyLog, imagesToAdd, cycle, cycleSlot,
                   signals, observed, frames, uboHazard>>
    /\ panicAt' = IF pc' = "panic" THEN "Load" ELSE panicAt
    /\ UNCHANGED <<ignoredNews, stagingVars, swapChainInfoVars, deviceVars, memoryVars,
                   loaderVars>>

\* Unload(url) after Cleanup: Texture.Destroy is called with r.device, which
\* has been destroyed; a url that is not loaded panics as before.
UnloadCleaned(url, crash) ==
    /\ pc = "idle"
    /\ phase = "cleaned"
    /\ theRenderSystem # "nil"
    /\ IF url \notin DOMAIN registry
       THEN /\ pc' = "panic"
            /\ UNCHANGED <<registry, alive, staleCalls>>
       ELSE /\ staleCalls' = staleCalls \cup {"DestroySampler"}
            /\ IF crash
               THEN /\ pc' = "panic"
                    /\ UNCHANGED <<registry, alive>>
               ELSE /\ alive' = alive \ {Obj("texture", registry[url])}
                    /\ registry' = [u \in (DOMAIN registry) \ {url} |-> registry[u]]
                    /\ UNCHANGED pc
    /\ UNCHANGED <<theRenderSystem, phase, lock, notifier, framebufferResized, currentFrame,
                   imageIndex, inFlightFences, inFlight, swapChainVars, uniformBuffers, vertexData,
                   descriptorSets, commandBuffers, destroyLog, imagesToAdd, nextTex, cycle,
                   cycleSlot, signals, observed, frames, uboHazard>>
    /\ panicAt' = IF pc' = "panic" THEN "Unload" ELSE panicAt
    /\ UNCHANGED <<ignoredNews, stagingVars, swapChainInfoVars, deviceVars, memoryVars,
                   loaderVars>>

(***************************************************************************)
(* The staged uploads, call by call: createVertexBuffer, createIndexBuffer *)
(* and NewTextureResource, the one-time command buffers they submit to     *)
(* r.graphicsQueue, and the GPU that executes them. A call whose result    *)
(* the code does not look at is taken to succeed.                          *)
(***************************************************************************)
\* A Vulkan call on object o; stmt names the statement of the uploading
\* function that makes it, old and new are the layouts of a barrier.
VkCall(c, o) == [call |-> c, on |-> o, stmt |-> c, old |-> "", new |-> ""]
In(stmt, calls) == [j \in 1 .. Len(calls) |-> [calls[j] EXCEPT !.stmt = stmt]]
NoCommand == VkCall("none", "none")

createBuffer(o) ==
    In("createBuffer", <<VkCall("CreateBuffer", o), VkCall("findMemoryType", o),
                         VkCall("AllocateMemory", o), VkCall("BindBufferMemory", o)>>)

beginSingleTimeCommands ==
    <<VkCall("AllocateCommandBuffers", "commandBuf"),
      VkCall("BeginCommandBuffer", "commandBuf")>>

endSingleTimeCommands ==
    <<VkCall("EndCommandBuffer", "commandBuf"), VkCall("QueueSubmit", "commandBuf"),
      VkCall("QueueWaitIdle", "graphicsQueue"), VkCall("FreeCommandBuffers", "commandBuf")>>

copyBuffer(dst) ==
    In("copyBuffer", beginSingleTimeCommands \o <<VkCall("CmdCopyBuffer", dst)>>
                     \o endSingleTimeCommands)

transitionImageLayout(oldLayout, newLayout) ==
    In("transitionImageLayout",
       beginSingleTimeCommands
       \o <<[VkCall("CmdPipelineBarrier", "image") EXCEPT !.old = oldLayout,
                                                          !.new = newLayout]>>
       \o endSingleTimeCommands)

copyBufferToImage ==
    In("copyBufferToImage", beginSingleTimeCommands
                            \o <<VkCall("CmdCopyBufferToImage", "image")>>
                            \o endSingleTimeCommands)

\* createVertexBuffer (dst "vertexBuffer") and createIndexBuffer (dst
\* "indexBuffer"), which differ in the data and the usage bit only.
createStagedBuffer(dst) ==
    createBuffer("staging")
    \o <<VkCall("MapMemory", "staging"), VkCall("Memcopy", "staging"),
         VkCall("UnmapMemory", "staging")>>
    \o createBuffer(dst)
    \o copyBuffer(dst)
    \o <<VkCall("DestroyBuffer", "staging"), VkCall("FreeMemory", "staging")>>

createVertexBuffer == createStagedBuffer("vertexBuffer")
createIndexBuffer == createStagedBuffer("indexBuffer")

\* Mutant of NewTextureResource: the image is left in the layout the copy
\* wrote it in.
NewTextureResourceOneTransition ==
    createBuffer("staging")
    \o <<VkCall("MapMemory", "staging"), VkCall("Memcopy", "staging"),
         VkCall("UnmapMemory", "staging"),
         VkCall("CreateImage", "image"), VkCall("findMemoryType", "image"),
         VkCall("AllocateMemory", "image"), VkCall("BindImageMemory", "image")>>
    \o transitionImageLayout("Undefined", "TransferDstOptimal")
    \o copyBufferToImage
    \o <<VkCall("DestroyBuffer", "staging"), VkCall("FreeMemory", "staging"),
         VkCall("CreateImageView", "image"), VkCall("CreateSampler", "image")>>

NewTextureResource ==
    createBuffer("staging")
    \o <<VkCall("MapMemory", "staging"), VkCall("Memcopy", "staging"),
         VkCall("UnmapMemory", "staging"),
         VkCall("CreateImage", "image"), VkCall("findMemoryType", "image"),
         VkCall("AllocateMemory", "image"), VkCall("BindImageMemory", "image")>>
    \o transitionImageLayout("Undefined", "TransferDstOptimal")
    \o copyBufferToImage
    \o transitionImageLayout("TransferDstOptimal", "ShaderReadOnlyOptimal")
    \o <<VkCall("DestroyBuffer", "staging"), VkCall("FreeMemory", "staging"),
         VkCall("CreateImageView", "image"), VkCall("CreateSampler", "image")>>

UploadKinds == {"vertex", "index", "texture"}

Calls(kind) ==
    CASE kind = "vertex" -> createVertexBuffer
      [] kind = "index" -> createIndexBuffer
      [] kind = "texture" -> NewTextureResource

\* The calls whose result no caller looks at.
Unchecked ==
    {"MapMemory", "UnmapMemory", "CmdCopyBuffer", "CmdPipelineBarrier",
     "CmdCopyBufferToImage", "QueueWaitIdle", "FreeCommandBuffers", "DestroyBuffer",
     "FreeMemory"}

\* What the uploading function does when call c of it fails: NewTextureResource
\* panics; createVertexBuffer and createIndexBuffer return the error, except
\* for the error of copyBuffer, which they drop ("none": the call is not
\* checked and taken to succeed).
OnFailure(kind, c) ==
    IF c.call \in Unchecked THEN "none"
    ELSE IF kind = "texture" THEN (IF c.call = "Memcopy" THEN "none" ELSE "panic")
    ELSE IF c.stmt = "copyBuffer" THEN "dropped"
    ELSE "error"

\* The first call after the statement that call number j belongs to.
AfterStatement(calls, j) ==
    CHOOSE k \in (j + 1) .. (Len(calls) + 1) :
        /\ k = Len(calls) + 1 \/ calls[k].stmt # calls[j].stmt
        /\ \A i \in j .. (k - 1) : calls[i].stmt = calls[j].stmt

\* One of the uploads is entered.
StartUpload(kind) ==
    /\ uploadResult # "running"
    /\ uploading' = kind
    /\ uploadPc' = 1
    /\ uploadResult' = "running"
    /\ uploadLog' = <<>>
    /\ recording' = NoCommand
    /\ graphicsQueue' = <<>>
    /\ stagingBuffer' = "null"
    /\ layout' = "Undefined"
    /\ destData' = "none"
    /\ UNCHANGED <<renderVars, swapChainInfoVars, deviceVars, memoryVars, loaderVars, instanceVars>>

\* The next call of the upload is made and succeeds (ok) or fails.
UploadCall(ok) ==
    /\ uploadResult = "running"
    /\ LET calls == Calls(uploading)
           c == calls[uploadPc]
           fail == OnFailure(uploading, c)
           next == IF ok THEN uploadPc + 1
                   ELSE IF fail = "dropped" THEN AfterStatement(calls, uploadPc)
                   ELSE uploadPc
       IN
        /\ ok \/ fail # "none"
        /\ c.call = "QueueWaitIdle" => graphicsQueue = <<>>
        /\ uploadLog' = Append(uploadLog, [made |-> c, ok |-> ok])
        /\ stagingBuffer' =
               IF ok /\ c.on = "staging" /\ c.call = "CreateBuffer" THEN "created"
               ELSE IF c.on = "staging" /\ c.call = "DestroyBuffer" THEN "destroyed"
               ELSE stagingBuffer
        /\ recording' =
               IF c.call \in {"CmdCopyBuffer", "CmdPipelineBarrier", "CmdCopyBufferToImage"}
               THEN c ELSE recording
        /\ graphicsQueue' = IF ok /\ c.call = "QueueSubmit"
                            THEN Append(graphicsQueue, recording) ELSE graphicsQueue
        /\ uploadPc' = next
        /\ uploadResult' = IF ~ok /\ fail \in {"error", "panic"} THEN fail
                           ELSE IF next > Len(calls) THEN "returned"
                           ELSE "running"
    /\ UNCHANGED <<uploading, layout, destData, renderVars, swapChainInfoVars, deviceVars, memoryVars, loaderVars, instanceVars>>

\* The GPU executes the oldest command submitted to the graphics queue: a
\* copy reads the staging buffer, a barrier changes the layout of the image.
QueueComplete ==
    /\ graphicsQueue # <<>>
    /\ LET cmd == Head(graphicsQueue) IN
        /\ layout' = IF cmd.call = "CmdPipelineBarrier" THEN cmd.new ELSE layout
        /\ destData' =
               IF cmd.call = "CmdPipelineBarrier" THEN destData
               ELSE IF stagingBuffer = "created"
                       /\ (cmd.call = "CmdCopyBufferToImage" => layout = "TransferDstOptimal")
               THEN "staged" ELSE "undefined"
    /\ graphicsQueue' = Tail(graphicsQueue)
    /\ UNCHANGED <<uploading, uploadPc, uploadResult, uploadLog, recording, stagingBuffer,
                   renderVars, swapChainInfoVars, deviceVars, memoryVars, loaderVars, instanceVars>>

(***************************************************************************)
(* What createSwapChain asks for: the surface format, the present mode,    *)
(* the extent and the image count it derives from the package-level record *)
(* details. A uint32 is kept as its two 16-bit halves <<high, low>>, so    *)
(* that it has its width and wraps as in Go.                               *)
(***************************************************************************)
Half == 2 ^ 16
U32(hi, lo) == <<hi, lo>>
Zero == U32(0, 0)
One == U32(0, 1)
MaxUint32 == U32(Half - 1, Half - 1)
Less(a, b) == a[1] < b[1] \/ (a[1] = b[1] /\ a[2] < b[2])
AddU32(a, b) ==
    LET lo == a[2] + b[2]
        hi == a[1] + b[1] + (lo \div Half)
    IN U32(hi % Half, lo % Half)

\* The uint32 values the inputs are drawn from.
Uint32s == {U32(0, k) : k \in 0 .. MaxValue} \cup {U32(1, 0), MaxUint32}

Extent2D(w, h) == [width |-> w, height |-> h]
SurfaceFormat(f, c) == [format |-> f, colorSpace |-> c]
SurfaceFormats ==
    {SurfaceFormat("Undefined", "SrgbNonlinear"),
     SurfaceFormat("B8g8r8Unorm", "SrgbNonlinear"),
     SurfaceFormat("B8g8r8Unorm", "ExtendedSrgbLinear"),
     SurfaceFormat("R8g8b8a8Unorm", "SrgbNonlinear")}
PresentModes == {"Fifo", "Mailbox", "Immediate", "FifoRelaxed"}
Lists(S, n) == UNION {[1 .. k -> S] : k \in 1 .. n}

\* Mutant of chooseSwapSurfaceFormat: the first reported format.
chooseSwapSurfaceFormatFirst(formats) == formats[1]

\* Mutant of chooseSwapSurfaceFormat: without the single-undefined case.
chooseSwapSurfaceFormatNoDefault(formats) ==
    IF \E j \in 1 .. Len(formats) :
           formats[j].format = "B8g8r8Unorm" /\ formats[j].colorSpace = "SrgbNonlinear"
    THEN SurfaceFormat("B8g8r8Unorm", "SrgbNonlinear")
    ELSE formats[1]

chooseSwapSurfaceFormat(formats) ==
    IF Len(formats) = 1 /\ formats[1].format = "Undefined"
    THEN SurfaceFormat("B8g8r8Unorm", "SrgbNonlinear")
    ELSE IF \E j \in 1 .. Len(formats) :
                formats[j].format = "B8g8r8Unorm" /\ formats[j].colorSpace = "SrgbNonlinear"
    THEN formats[CHOOSE j \in 1 .. Len(formats) :
                     /\ formats[j].format = "B8g8r8Unorm"
                     /\ formats[j].colorSpace = "SrgbNonlinear"
                     /\ \A i \in 1 .. (j - 1) :
                            ~(formats[i].format = "B8g8r8Unorm"
                              /\ formats[i].colorSpace = "SrgbNonlinear")]
    ELSE formats[1]

\* Mutant of chooseSwapPresentMode: Immediate is returned where it is found.
chooseSwapPresentModeEager(modes) ==
    IF \E j \in 1 .. Len(modes) : modes[j] \in {"Mailbox", "Immediate"}
    THEN modes[CHOOSE j \in 1 .. Len(modes) :
                   /\ modes[j] \in {"Mailbox", "Immediate"}
                   /\ \A i \in 1 .. (j - 1) : modes[i] \notin {"Mailbox", "Immediate"}]
    ELSE "Fifo"

\* The loop of chooseSwapPresentMode from element j on, with bestMode.
RECURSIVE PresentModeLoop(_, _, _)
PresentModeLoop(modes, j, bestMode) ==
    IF j > Len(modes) THEN bestMode
    ELSE IF modes[j] = "Mailbox" THEN modes[j]
    ELSE PresentModeLoop(modes, j + 1, IF modes[j] = "Immediate" THEN modes[j] ELSE bestMode)

chooseSwapPresentMode(modes) == PresentModeLoop(modes, 1, "Fifo")

\* Mutant of clamp: the value is not raised to low.
clampHigh(high, low, value) == IF Less(high, value) THEN high ELSE value

clamp(high, low, value) ==
    LET ret == IF Less(high, value) THEN high ELSE value
    IN IF Less(ret, low) THEN low ELSE ret

chooseSwapExtent(capabilities, canvas) ==
    IF capabilities.currentExtent.width # MaxUint32
    THEN capabilities.currentExtent
    ELSE Extent2D(clamp(capabilities.maxImageExtent.width,
                        capabilities.minImageExtent.width, canvas.width),
                  clamp(capabilities.maxImageExtent.height,
                        capabilities.minImageExtent.height, canvas.height))

\* imageCount of createSwapChain.
imageCount(capabilities) ==
    LET count == AddU32(capabilities.minImageCount, One)
    IN IF Less(Zero, capabilities.maxImageCount) /\ Less(capabilities.maxImageCount, count)
       THEN capabilities.maxImageCount
       ELSE count

\* A record details of a device with one format and one present mode, and
\* the window the canvas size is read from.
DefaultCapabilities ==
    [currentExtent |-> Extent2D(One, One), minImageExtent |-> Extent2D(One, One),
     maxImageExtent |-> Extent2D(One, One), minImageCount |-> One, maxImageCount |-> Zero]
DefaultDetails ==
    [capabilities |-> DefaultCapabilities,
     formats |-> <<SurfaceFormat("B8g8r8Unorm", "SrgbNonlinear")>>,
     presentModes |-> <<"Fifo">>]
DefaultWindow == Extent2D(One, One)

\* The records details and windows createSwapChain is run on: every list of
\* formats, every list of present modes, every combination of extents and
\* every pair of image counts, the rest of the record being the default.
SwapChainInputs ==
    {[details |-> [DefaultDetails EXCEPT !.formats = fs], window |-> DefaultWindow] :
        fs \in Lists(SurfaceFormats, MaxFormats)}
    \cup {[details |-> [DefaultDetails EXCEPT !.presentModes = ms], window |-> DefaultWindow] :
            ms \in Lists(PresentModes, MaxModes)}
    \cup {[details |-> [DefaultDetails EXCEPT !.capabilities.minImageCount = lo,
                                              !.capabilities.maxImageCount = hi],
           window |-> DefaultWindow] : lo \in Uint32s, hi \in Uint32s}
    \cup {[details |-> [DefaultDetails EXCEPT
                            !.capabilities.currentExtent = Extent2D(cur, One),
                            !.capabilities.minImageExtent = Extent2D(lo[1], lo[2]),
                            !.capabilities.maxImageExtent = Extent2D(hi[1], hi[2])],
           window |-> Extent2D(w[1], w[2])] :
            cur \in {One, MaxUint32}, lo \in Uint32s \X Uint32s, hi \in Uint32s \X Uint32s,
            w \in Uint32s \X Uint32s}

\* createSwapChain up to the vk.SwapchainCreateInfo it builds, in New and
\* in every rebuild.
createSwapChain ==
    /\ Len(createInfos) < MaxBuilds
    /\ createInfos' =
           Append(createInfos,
                  [minImageCount |-> imageCount(details.capabilities),
                   imageFormat |-> chooseSwapSurfaceFormat(details.formats).format,
                   imageColorSpace |-> chooseSwapSurfaceFormat(details.formats).colorSpace,
                   imageExtent |-> chooseSwapExtent(details.capabilities, window),
                   presentMode |-> chooseSwapPresentMode(details.presentModes)])
    /\ UNCHANGED <<details, window, surfaceCapabilities, renderVars, stagingVars, deviceVars, memoryVars, loaderVars, instanceVars>>

\* The capabilities a surface reports as its window is resized: a definite
\* current extent and the least image count.
ResizedCapabilities ==
    {[DefaultCapabilities EXCEPT !.currentExtent = Extent2D(U32(0, w), U32(0, h)),
                                 !.minImageCount = U32(0, n)] :
        w \in 0 .. MaxValue, h \in 0 .. MaxValue, n \in 0 .. MaxValue}

\* The window is resized between two calls of createSwapChain: the surface
\* reports other capabilities from now on. No code of the package runs.
SurfaceChanges(c) ==
    /\ createInfos # <<>>
    /\ c # surfaceCapabilities
    /\ surfaceCapabilities' = c
    /\ UNCHANGED <<details, window, createInfos, renderVars, stagingVars, deviceVars, memoryVars, loaderVars, instanceVars>>

(***************************************************************************)
(* The device loop of initVulkan: one physical device after the other, its *)
(* queue families one after the other, then the checks that reject it or   *)
(* select it. Of the record details the loop fills in, the model keeps the *)
(* device each part was read from.                                         *)
(***************************************************************************)
wantedExtensions == {"VK_KHR_swapchain"}
ExtensionNames == {"VK_KHR_swapchain", "VK_KHR_maintenance1"}

\* What the Vulkan queries report for a physical device.
PhysicalDevices ==
    [queueFamilyPropertyCount : 0 .. MaxFamilies,
     availableExtensions : SUBSET ExtensionNames,
     capabilitiesOK : BOOLEAN,
     formatCount : 0 .. 1,
     presentModeCount : 0 .. 1]

\* The loop takes the next of the enumerated devices; one without queue
\* families is passed over.
NextDevice(d) ==
    /\ devicePc = "devices"
    /\ examined < MaxDevices
    /\ examined' = examined + 1
    /\ device' = d
    /\ families' = <<>>
    /\ graphicsSupport' = FALSE
    /\ presentSupport' = FALSE
    /\ devicePc' = IF d.queueFamilyPropertyCount = 0 THEN "devices" ELSE "families"
    /\ UNCHANGED <<graphicsIdx, presentIdx, gpu, deviceSelected, readFrom, initError,
                   renderVars, stagingVars, swapChainInfoVars, memoryVars, loaderVars, instanceVars>>

\* One iteration of the loop over the queue families of the device: family
\* i supports graphics (graphics) and presentation to the surface (present).
ExamineQueueFamily(graphics, present) ==
    /\ devicePc = "families"
    /\ LET i == Len(families) IN
        /\ graphicsIdx' = IF graphics THEN i ELSE graphicsIdx
        /\ presentIdx' = IF present THEN i ELSE presentIdx
        /\ readFrom' = [readFrom EXCEPT
                            !.graphicsIdx = IF graphics THEN examined ELSE @,
                            !.presentIdx = IF present THEN examined ELSE @]
        /\ devicePc' = IF i + 1 = device.queueFamilyPropertyCount THEN "checks"
                       ELSE "families"
    /\ graphicsSupport' = (graphicsSupport \/ graphics)
    /\ presentSupport' = (presentSupport \/ present)
    /\ families' = Append(families, [graphics |-> graphics, present |-> present])
    /\ UNCHANGED <<examined, device, gpu, deviceSelected, initError,
                   renderVars, stagingVars, swapChainInfoVars, memoryVars, loaderVars, instanceVars>>

\* How far the checks on the device get: the number of the first that
\* rejects it, 6 when it passes them all.
Rejected(d, g, p) ==
    IF ~g \/ ~p THEN 1
    ELSE IF d.availableExtensions = {} \/ ~(wantedExtensions \subseteq d.availableExtensions)
    THEN 2
    ELSE IF ~d.capabilitiesOK THEN 3
    ELSE IF d.formatCount = 0 THEN 4
    ELSE IF d.presentModeCount = 0 THEN 5
    ELSE 6

\* Mutant of CheckDevice: the first device that passes is kept.
CheckDeviceKeepFirst ==
    /\ devicePc = "checks"
    /\ LET at == Rejected(device, graphicsSupport, presentSupport) IN
        /\ readFrom' = [readFrom EXCEPT
                            !.capabilities = IF at >= 3 THEN examined ELSE @,
                            !.formats = IF at >= 5 THEN examined ELSE @,
                            !.presentModes = IF at = 6 THEN examined ELSE @]
        /\ deviceSelected' = (deviceSelected \/ at = 6)
        /\ gpu' = IF at = 6 /\ ~deviceSelected THEN examined ELSE gpu
    /\ devicePc' = "devices"
    /\ UNCHANGED <<examined, device, families, graphicsSupport, presentSupport, graphicsIdx,
                   presentIdx, initError, renderVars, stagingVars, swapChainInfoVars, memoryVars, loaderVars, instanceVars>>

\* The rest of the loop body: the checks, each of which goes on to the next
\* device when it fails, the queries that fill in details, and the selection.
CheckDevice ==
    /\ devicePc = "checks"
    /\ LET at == Rejected(device, graphicsSupport, presentSupport) IN
        /\ readFrom' = [readFrom EXCEPT
                            !.capabilities = IF at >= 3 THEN examined ELSE @,
                            !.formats = IF at >= 5 THEN examined ELSE @,
                            !.presentModes = IF at = 6 THEN examined ELSE @]
        /\ deviceSelected' = (deviceSelected \/ at = 6)
        /\ gpu' = IF at = 6 THEN examined ELSE gpu
    /\ devicePc' = "devices"
    /\ UNCHANGED <<examined, device, families, graphicsSupport, presentSupport, graphicsIdx,
                   presentIdx, initError, renderVars, stagingVars, swapChainInfoVars, memoryVars, loaderVars, instanceVars>>

\* The loop has gone through the devices enumerated.
EndDevices ==
    /\ devicePc = "devices"
    /\ devicePc' = "done"
    /\ initError' = IF deviceSelected THEN "none" ELSE "failed to find a sutible GPU"
    /\ UNCHANGED <<examined, device, families, graphicsSupport, presentSupport, graphicsIdx,
                   presentIdx, gpu, deviceSelected, readFrom, renderVars, stagingVars,
                   swapChainInfoVars, memoryVars, loaderVars, instanceVars>>

(***************************************************************************)
(* findMemoryType and the createBuffer that calls it. typeFilter is the    *)
(* set of the bits set in the uint32, a vk.MemoryPropertyFlags the set of  *)
(* its flags, memoryTypes the MemoryTypes of the device below its          *)
(* MemoryTypeCount.                                                        *)
(***************************************************************************)
MemoryPropertyFlags == {"DeviceLocal", "HostVisible"}
NoMemoryType == "failed to find suitable memory type"

\* Mutant of MemoryTypeLoop: a later match replaces an earlier one.
RECURSIVE MemoryTypeLoopLast(_, _, _, _)
MemoryTypeLoopLast(types, filter, flags, i) ==
    IF i >= Len(types) THEN [index |-> 0, err |-> NoMemoryType]
    ELSE LET rest == MemoryTypeLoopLast(types, filter, flags, i + 1) IN
         IF rest.err = "none" THEN rest
         ELSE IF i \in filter /\ (types[i + 1] \cap flags) = flags
         THEN [index |-> i, err |-> "none"]
         ELSE rest

\* The loop of findMemoryType from index i on.
RECURSIVE MemoryTypeLoop(_, _, _, _)
MemoryTypeLoop(types, filter, flags, i) ==
    IF i >= Len(types) THEN [index |-> 0, err |-> NoMemoryType]
    ELSE IF i \in filter /\ (types[i + 1] \cap flags) = flags
    THEN [index |-> i, err |-> "none"]
    ELSE MemoryTypeLoop(types, filter, flags, i + 1)

findMemoryType(types, filter, flags) == MemoryTypeLoop(types, filter, flags, 0)

\* createBuffer(size, usage, properties) on a device with the memory types
\* memoryTypes, the buffer requiring one of the types in typeFilter: the
\* error it returns and the MemoryTypeIndex it allocates from.
createBufferCall(createOK, allocateOK, bindOK) ==
    /\ bufferResults = <<>>
    /\ LET found == findMemoryType(memoryTypes, typeFilter, properties)
           err == IF ~createOK THEN "unable to create buffer"
                  ELSE IF found.err # "none" THEN found.err
                  ELSE IF ~allocateOK THEN "failed to allocate buffer memory"
                  ELSE IF ~bindOK THEN "unable to bind buffer memory"
                  ELSE "none"
       IN bufferResults' =
              <<[err |-> err, created |-> createOK,
                 allocated |-> createOK /\ found.err = "none" /\ allocateOK,
                 memoryTypeIndex |-> found.index]>>
    /\ UNCHANGED <<memoryTypes, typeFilter, properties, renderVars, stagingVars,
                   swapChainInfoVars, deviceVars, loaderVars, instanceVars>>

(***************************************************************************)
(* The texture loader with a render system present, call by call: what     *)
(* theTextureLoader.images holds, with the fields of each TextureResource  *)
(* and of its Texture.                                                     *)
(***************************************************************************)
LoaderUrls == Urls \cup {[name |-> "c", ext |-> ".png"]}
ImageSizes == 1 .. (MaxValue + 1)
NoUrl == [name |-> "", ext |-> ""]
NoLocate == "unable to locate resource with url"

\* tex := &Texture{} as NewTextureResource returns it: image, mem, view and
\* sampler, here the id, are assigned; texWidth and texHeight keep the zero
\* value of int32.
NewTexture(n, w, h) == [id |-> n, texWidth |-> 0, texHeight |-> 0]

\* Mutant of TextureResource: the url field is left at its zero value.
TextureResourceNoUrl(tex, url) == [Texture |-> tex, url |-> NoUrl]

\* The composite literal TextureResource{tex, url}.
TextureResource(tex, url) == [Texture |-> tex, url |-> url]

\* The zero value TextureResource{}; its nil Texture has the id -1.
NoResource == [Texture |-> [id |-> -1, texWidth |-> 0, texHeight |-> 0], url |-> NoUrl]

URL(t) == t.url

\* float32 of an int32 is exact for the sizes used here.
Width(t) == t.texWidth
Height(t) == t.texHeight

\* textureLoader.Resource.
Resource(reg, url) ==
    IF url \in DOMAIN reg
    THEN [res |-> reg[url], err |-> "none"]
    ELSE [res |-> NoResource, err |-> NoLocate]

\* Load(url, data) of data that decodes (or not) to an image of w by h.
LoadTexture(url, w, h, decodeOK, uploadOK) ==
    /\ loaderPc = "idle"
    /\ Len(loaderCalls) < MaxCalls
    /\ IF getExt(url) = ".svg" \/ ~decodeOK
       THEN /\ loaderCalls' = Append(loaderCalls,
                [op |-> "Load", url |-> url, err |-> "error", res |-> NoResource])
            /\ UNCHANGED <<resources, decoded, loaderPc>>
       ELSE IF ~uploadOK
       THEN /\ loaderPc' = "panic"
            /\ loaderCalls' = Append(loaderCalls,
                [op |-> "Load", url |-> url, err |-> "panic", res |-> NoResource])
            /\ UNCHANGED <<resources, decoded>>
       ELSE LET tex == NewTexture(Len(decoded), w, h) IN
            /\ resources' = [u \in (DOMAIN resources) \cup {url} |->
                                IF u = url THEN TextureResource(tex, url) ELSE resources[u]]
            /\ decoded' = Append(decoded, [width |-> w, height |-> h])
            /\ loaderCalls' = Append(loaderCalls,
                [op |-> "Load", url |-> url, err |-> "none", res |-> NoResource])
            /\ UNCHANGED loaderPc
    /\ UNCHANGED <<renderVars, stagingVars, swapChainInfoVars, deviceVars, memoryVars, instanceVars>>

\* Unload(url): Destroy on the nil Texture of a missing url panics.
UnloadTexture(url) ==
    /\ loaderPc = "idle"
    /\ Len(loaderCalls) < MaxCalls
    /\ IF url \notin DOMAIN resources
       THEN /\ loaderPc' = "panic"
            /\ loaderCalls' = Append(loaderCalls,
                [op |-> "Unload", url |-> url, err |-> "panic", res |-> NoResource])
            /\ UNCHANGED resources
       ELSE /\ resources' = [u \in (DOMAIN resources) \ {url} |-> resources[u]]
            /\ loaderCalls' = Append(loaderCalls,
                [op |-> "Unload", url |-> url, err |-> "none", res |-> NoResource])
            /\ UNCHANGED loaderPc
    /\ UNCHANGED <<decoded, renderVars, stagingVars, swapChainInfoVars, deviceVars, memoryVars, instanceVars>>

\* Resource(url), its results recorded.
ResourceCall(url) ==
    /\ loaderPc = "idle"
    /\ Len(loaderCalls) < MaxCalls
    /\ loaderCalls' = Append(loaderCalls,
            [op |-> "Resource", url |-> url, err |-> Resource(resources, url).err,
             res |-> Resource(resources, url).res])
    /\ UNCHANGED <<resources, decoded, loaderPc, renderVars, stagingVars, swapChainInfoVars,
                   deviceVars, memoryVars, instanceVars>>

(***************************************************************************)
(* The initial state.                                                      *)
(***************************************************************************)
InitStaging ==
    /\ uploading = "none"
    /\ uploadPc = 0
    /\ uploadResult = "none"
    /\ uploadLog = <<>>
    /\ recording = NoCommand
    /\ graphicsQueue = <<>>
    /\ stagingBuffer = "null"
    /\ layout = "Undefined"
    /\ destData = "none"

InitSwapChainInfo ==
    /\ details = DefaultDetails
    /\ window = DefaultWindow
    /\ createInfos = <<>>
    /\ surfaceCapabilities = DefaultCapabilities

InitDevices ==
    /\ devicePc = "devices"
    /\ examined = 0
    /\ device = [queueFamilyPropertyCount |-> 0, availableExtensions |-> {},
                 capabilitiesOK |-> FALSE, formatCount |-> 0, presentModeCount |-> 0]
    /\ families = <<>>
    /\ graphicsSupport = FALSE
    /\ presentSupport = FALSE
    /\ graphicsIdx = 0
    /\ presentIdx = 0
    /\ gpu = 0
    /\ deviceSelected = FALSE
    /\ readFrom = [graphicsIdx |-> 0, presentIdx |-> 0, capabilities |-> 0, formats |-> 0,
                   presentModes |-> 0]
    /\ initError = "none"

InitMemory ==
    /\ memoryTypes = <<>>
    /\ typeFilter = {}
    /\ properties = {}
    /\ bufferResults = <<>>

InitLoader ==
    /\ resources = <<>>
    /\ decoded = <<>>
    /\ loaderCalls = <<>>
    /\ loaderPc = "idle"

InitInstances ==
    /\ ignoredNews = 0
    /\ staleCalls = {}

Init ==
    /\ InitRender
    /\ InitStaging
    /\ InitSwapChainInfo
    /\ InitDevices
    /\ InitMemory
    /\ InitLoader
    /\ InitInstances

\* The loader alone, called in any order once New has set theRenderSystem
\* (the branch of Load taken here); the render system's own variables play
\* no part in it.
NextLoader ==
    \/ \E url \in LoaderUrls, w \in ImageSizes, h \in ImageSizes,
          decodeOK \in BOOLEAN, uploadOK \in BOOLEAN :
            LoadTexture(url, w, h, decodeOK, uploadOK)
    \/ \E url \in LoaderUrls : UnloadTexture(url)
    \/ \E url \in LoaderUrls : ResourceCall(url)

SpecLoader == Init /\ [][NextLoader]_vars

\* What the game, the listener, the render thread and the GPU do besides
\* building the swapchain-scoped state.
Run ==
    \/ \E url \in Urls, decodeOK \in BOOLEAN, uploadOK \in BOOLEAN :
           Load(url, decodeOK, uploadOK)
    \/ \E url \in Urls : Unload(url)
    \/ NotifierLock
    \/ NotifierSet
    \/ NotifierUnlock
    \/ UpdateLock
    \/ UpdateCheck
    \/ UpdateClearFlag
    \/ UpdateWaitFence
    \/ \E k \in 0 .. (MaxImages - 1), ok \in BOOLEAN : UpdateAcquire(k, ok)
    \/ UpdateUniform
    \/ UpdateResetFence
    \/ \E ok \in BOOLEAN : UpdateSubmit(ok)
    \/ \E ok \in BOOLEAN : UpdatePresent(ok)
    \/ UpdateAdvance
    \/ \E j \in 1 .. maxFramesInFlight : GpuComplete(j)
    \/ Cleanup

\* The program when every Vulkan call that creates an object succeeds: the
\* one failure of New is that of a queued texture.
Next ==
    \/ \E n \in ImageCounts, f \in {"none", "Files.Load"},
          decodeOK \in BOOLEAN, uploadOK \in BOOLEAN :
           New(n, f, FALSE, decodeOK, uploadOK)
    \/ \E n \in ImageCounts : recreateSwapChain(n, "none", FALSE)
    \/ Run

Spec == Init /\ [][Next]_vars

\* What the scheduling gives: the render thread runs each step of an
\* Update it has begun; the game keeps calling Update, whose Lock the mutex
\* grants although the listener takes it now and then; the listener, once it
\* has the mutex, sets the flag and unlocks; the GPU completes every
\* submission. Nothing is assumed of when a resize is signalled, of Load,
\* Unload and Cleanup, or of which image an acquire returns.
Fairness ==
    /\ SF_vars(UpdateLock)
    /\ WF_vars(UpdateCheck)
    /\ WF_vars(\E n \in ImageCounts : recreateSwapChain(n, "none", FALSE))
    /\ WF_vars(UpdateClearFlag)
    /\ WF_vars(UpdateWaitFence)
    /\ WF_vars(\E k \in 0 .. (MaxImages - 1), ok \in BOOLEAN : UpdateAcquire(k, ok))
    /\ WF_vars(UpdateUniform)
    /\ WF_vars(UpdateResetFence)
    /\ WF_vars(\E ok \in BOOLEAN : UpdateSubmit(ok))
    /\ WF_vars(\E ok \in BOOLEAN : UpdatePresent(ok))
    /\ WF_vars(UpdateAdvance)
    /\ WF_vars(NotifierSet)
    /\ WF_vars(NotifierUnlock)
    /\ WF_vars(\E j \in 1 .. maxFramesInFlight : GpuComplete(j))

SpecLive == Spec /\ Fairness

\* The program with, besides, New called on a second RenderSystem and the
\* texture loader called after Cleanup.
NextInstances ==
    \/ Next
    \/ NewOnSecond
    \/ \E url \in Urls, decodeOK \in BOOLEAN, crash \in BOOLEAN :
           LoadCleaned(url, decodeOK, crash)
    \/ \E url \in Urls, crash \in BOOLEAN : UnloadCleaned(url, crash)

SpecInstances == Init /\ [][NextInstances]_vars

\* The program when a call that creates an object may fail.
NextFaults ==
    \/ \E n \in ImageCounts, f \in NewFaults, abort \in BOOLEAN,
          decodeOK \in BOOLEAN, uploadOK \in BOOLEAN :
           New(n, f, abort, decodeOK, uploadOK)
    \/ \E n \in ImageCounts, f \in BuildFaults, abort \in BOOLEAN :
           recreateSwapChain(n, f, abort)
    \/ Run

SpecFaults == Init /\ [][NextFaults]_vars

\* The staged uploads on their own.
NextStaging ==
    \/ \E kind \in UploadKinds : StartUpload(kind)
    \/ \E ok \in BOOLEAN : UploadCall(ok)
    \/ QueueComplete

SpecStaging == Init /\ [][NextStaging]_vars

\* createSwapChain on every record details of the bounded inputs.
InitSwapChainInputs ==
    /\ InitRender
    /\ InitStaging
    /\ \E in \in SwapChainInputs : details = in.details /\ window = in.window
    /\ createInfos = <<>>
    /\ surfaceCapabilities = details.capabilities
    /\ InitDevices
    /\ InitMemory
    /\ InitLoader
    /\ InitInstances

NextSwapChain == createSwapChain

SpecSwapChain == InitSwapChainInputs /\ [][NextSwapChain]_vars

\* New and the rebuilds after it on a surface whose window is resized:
\* details.capabilities is what initVulkan read from the surface.
InitRebuilds ==
    /\ InitRender
    /\ InitStaging
    /\ InitDevices
    /\ InitMemory
    /\ InitLoader
    /\ InitInstances
    /\ surfaceCapabilities \in ResizedCapabilities
    /\ details = [DefaultDetails EXCEPT !.capabilities = surfaceCapabilities]
    /\ window = DefaultWindow
    /\ createInfos = <<>>

NextRebuilds ==
    \/ createSwapChain
    \/ \E c \in ResizedCapabilities : SurfaceChanges(c)

SpecRebuilds == InitRebuilds /\ [][NextRebuilds]_vars

\* createBuffer on every device of up to MaxTypes memory types, for every
\* type filter and every set of requested flags.
InitBuffers ==
    /\ InitRender
    /\ InitStaging
    /\ InitSwapChainInfo
    /\ InitDevices
    /\ memoryTypes \in UNION {[1 .. k -> SUBSET MemoryPropertyFlags] : k \in 0 .. MaxTypes}
    /\ typeFilter \in SUBSET (0 .. MaxTypes)
    /\ properties \in SUBSET MemoryPropertyFlags
    /\ bufferResults = <<>>
    /\ InitLoader
    /\ InitInstances

NextBuffers ==
    \E createOK \in BOOLEAN, allocateOK \in BOOLEAN, bindOK \in BOOLEAN :
        createBufferCall(createOK, allocateOK, bindOK)

SpecBuffers == InitBuffers /\ [][NextBuffers]_vars

\* The device loop of initVulkan on every enumeration of the bounded devices.
NextDevices ==
    \/ \E d \in PhysicalDevices : NextDevice(d)
    \/ \E graphics \in BOOLEAN, present \in BOOLEAN : ExamineQueueFamily(graphics, present)
    \/ CheckDevice
    \/ EndDevices

SpecDevices == Init /\ [][NextDevices]_vars

(***************************************************************************)
(* Properties of the frame scheduler.                                      *)
(***************************************************************************)
InFlightOn(f) == {j \in 1 .. Len(inFlight) : inFlight[j].fence = f}
Rebuilds(log) == Cardinality({j \in 1 .. Len(log) : log[j].op = "cleanupSwapChain"})
Called(log, o) == \E j \in 1 .. Len(log) : log[j].op = o
CycleDone == pc = "idle" /\ cycle # <<>>

\* C1: a slot's in-flight fence is never reset and handed to a new
\* submission while the previous submission that used the slot has not
\* signaled it: when Update is about to reset or to submit with the fence of
\* slot currentFrame no submission in flight holds that fence, and no fence
\* is ever held by two submissions in flight.
FenceWaitedBeforeReuse ==
    /\ \A f \in Slots : Cardinality(InFlightOn(f)) <= 1
    /\ pc \in {"reset", "submit"} => InFlightOn(currentFrame) = {}

\* A slot is used a second time while the other slot's submission is in flight.
FenceReusedWitness ==
    /\ pc = "present"
    /\ frames >= maxFramesInFlight + 1
    /\ Len(inFlight) = maxFramesInFlight

\* C2: the number of queue submissions whose fence has not signaled never
\* exceeds maxFramesInFlight.
InFlightBounded == Len(inFlight) <= maxFramesInFlight

\* Update is blocked on the fence of its slot with maxFramesInFlight
\* submissions outstanding.
BackpressureWitness ==
    /\ pc = "waitFence"
    /\ ~inFlightFences[currentFrame]
    /\ Len(inFlight) = maxFramesInFlight

\* C3: the signals the listener delivered between two reads of the flag by
\* the render thread cause exactly one rebuild in the cycle that reads the
\* flag, however many they were, and none when there was no signal.
ResizeCoalesced ==
    CycleDone => Rebuilds(cycle) = (IF observed >= 1 THEN 1 ELSE 0)

\* Two signals were delivered between two reads and one rebuild was done.
ResizeCoalescedWitness ==
    /\ CycleDone
    /\ observed >= 2
    /\ Rebuilds(cycle) = 1

\* The calls of a cycle that rebuilds, when f is the call that fails in the
\* rebuild: the build steps stop at the first that returns an error.
RebuildCycle(f) ==
    <<"Lock", "DeviceWaitIdle", "cleanupSwapChain">>
    \o SubSeq(BuildSteps, 1, StepsRun(f))
    \o <<"clearFlag", "Unlock">>

\* C4: a cycle that finds the resize flag set rebuilds the swapchain, clears
\* the flag and returns: it makes no other call (no acquire, uniform write,
\* fence reset, submit or present) and leaves currentFrame as it was.
RebuildCycleOnly ==
    (CycleDone /\ observed >= 1) =>
        /\ Ops(cycle) = RebuildCycle(swapChainFault)
        /\ currentFrame = cycleSlot
        /\ (signals = 0 => ~framebufferResized)

\* A rebuild cycle has returned in slot 1 with the flag cleared.
RebuildCycleWitness ==
    /\ CycleDone
    /\ observed >= 1
    /\ cycleSlot = 1
    /\ ~framebufferResized

\* C5 as claimed: the wait on the slot's fence comes first in every cycle,
\* before the flag is examined, so it has happened whenever the flag is being
\* examined or a rebuild is under way.
FenceWaitBeforeFlagCheck ==
    pc \in {"check", "recreate", "clear"} => Called(cycle, "WaitForFences")

\* C5 as amended: every cycle starts by taking the lock and examining the
\* flag; the wait on the slot's fence happens only in a cycle that does not
\* rebuild, right after the unlock that follows the flag check and right
\* before the acquire; a cycle that rebuilds waits for the device to be idle
\* and never waits on the slot's fence.
FlagCheckBeforeFenceWait ==
    /\ cycle # <<>> => cycle[1].op = "Lock"
    /\ \A j \in 1 .. Len(cycle) :
        /\ cycle[j].op = "WaitForFences" =>
              /\ j = 3
              /\ cycle[2].op = "Unlock"
              /\ cycle[j].args = <<cycleSlot>>
              /\ Rebuilds(cycle) = 0
        /\ cycle[j].op = "AcquireNextImage" => j > 1 /\ cycle[j - 1].op = "WaitForFences"
        /\ cycle[j].op = "cleanupSwapChain" =>
              /\ j > 1 /\ cycle[j - 1].op = "DeviceWaitIdle"
              /\ ~Called(cycle, "WaitForFences")

\* A rebuild is done while a rebuild cycle still holds the lock.
RebuildWithoutFenceWaitWitness ==
    /\ pc = "clear"
    /\ Rebuilds(cycle) = 1
    /\ ~Called(cycle, "WaitForFences")

\* The calls of a cycle in slot i that acquires image k.
FrameCycle(i, k) ==
    <<Call("Lock", <<>>), Call("Unlock", <<>>), Call("WaitForFences", <<i>>),
      Call("AcquireNextImage", <<i, k>>), Call("updateUniformBuffer", <<k>>),
      Call("ResetFences", <<i>>), Call("QueueSubmit", <<k, i, i, i>>),
      Call("QueuePresent", <<i, k>>), Call("advance", <<>>)>>

IsPrefix(s, t) == Len(s) <= Len(t) /\ s = SubSeq(t, 1, Len(s))

\* C6: a cycle that does not rebuild acquires an image on the slot's
\* image-available semaphore, rewrites the uniform buffer of the acquired
\* index, resets the slot's fence, submits the acquired image's command
\* buffer waiting on image-available and signaling render-finished and the
\* slot's fence, presents waiting on render-finished, and then sets
\* currentFrame to (currentFrame + 1) mod 2, in this order; at every point
\* of such a cycle the calls made so far are a prefix of this sequence.
FrameCycleOrder ==
    /\ (CycleDone /\ observed = 0) =>
           /\ \E k \in 0 .. (images - 1) : cycle = FrameCycle(cycleSlot, k)
           /\ currentFrame = (cycleSlot + 1) % 2
    /\ pc \in {"waitFence", "acquire", "uniform", "reset", "submit", "present", "advance"} =>
           /\ \E k \in 0 .. (images - 1) : IsPrefix(cycle, FrameCycle(cycleSlot, k))
           /\ currentFrame = cycleSlot

\* A frame was drawn in slot 1 for image 0 and currentFrame wrapped to 0.
FrameCycleWitness ==
    /\ CycleDone
    /\ cycle = FrameCycle(1, 0)
    /\ currentFrame = 0

\* C7: updateUniformBuffer never writes a uniform buffer that a submitted
\* command buffer still in flight reads.
NoUniformWriteWhileRead == uboHazard = {}

\* C8: the command buffer recorded for framebuffer i binds descriptor set i,
\* which binds uniform buffer i.
CommandBufferBindsOwnSet ==
    \A j \in 1 .. Len(commandBuffers) :
        /\ commandBuffers[j].framebuffer = j - 1
        /\ commandBuffers[j].descriptorSet = j - 1
        /\ j <= Len(descriptorSets) => descriptorSets[j].uniformBuffer = j - 1

\* A call that returned a result other than Success.
Failed(c) == c.op = "failed"

\* C17: when acquire, submit or present returns a non-success result Update
\* panics at that call: the failed call is the last call of the cycle for
\* good, currentFrame is still the slot the cycle was entered with, the call
\* was not made before in the cycle (no retry) and the cycle does no rebuild.
PanicOnFailedCall ==
    \A j \in 1 .. Len(cycle) :
        Failed(cycle[j]) =>
            /\ j = Len(cycle)
            /\ pc = "panic"
            /\ currentFrame = cycleSlot
            /\ Rebuilds(cycle) = 0
            /\ \A i \in 1 .. (j - 1) : cycle[i].op # cycle[j].args[1]

\* Present failed in a cycle of slot 1 while a submission was in flight.
PanicOnFailedCallWitness ==
    /\ cycle # <<>>
    /\ Failed(cycle[Len(cycle)])
    /\ cycle[Len(cycle)].args = <<"QueuePresent">>
    /\ cycleSlot = 1
    /\ inFlight # <<>>

(***************************************************************************)
(* Properties of New.                                                      *)
(***************************************************************************)
\* C18: New never returns normally after a step of it has failed: when New
\* has returned and no Update has run yet, the graphics pipeline was
\* created, the command buffers were allocated and recorded, and the vertex
\* and index data were copied to their buffers.
NewAbortsOnFailure ==
    (phase # "none" /\ frames = 0) => (swapChainFault = "none" /\ vertexData)

(***************************************************************************)
(* Properties of the resize flag.                                          *)
(***************************************************************************)
\* The flag is read and written inside the critical sections only.
FlagUnderLock ==
    /\ pc \in {"check", "recreate", "clear"} => lock = "render"
    /\ notifier \in {"set", "unlock"} => lock = "notifier"

\* A step that writes the flag, and a step of the listener.
FlagStep ==
    /\ (notifier = "set" /\ notifier' = "unlock") => framebufferResized'
    /\ (framebufferResized' # framebufferResized) =>
           IF framebufferResized'
           THEN notifier = "set" /\ lock = "notifier"
           ELSE pc = "clear" /\ lock = "render" /\ Rebuilds(cycle) = 1
    /\ (notifier' # notifier) =>
           UNCHANGED <<theRenderSystem, phase, pc, currentFrame, imageIndex, inFlightFences,
                       inFlight, swapChainVars, uniformBuffers, vertexData, descriptorSets,
                       commandBuffers, alive, registry, imagesToAdd, nextTex>>

\* C16: the listener and the render thread share framebufferResized and
\* nothing else: the flag is read and written only by the holder of r.lock,
\* the listener only sets it and changes no other state of the program, and
\* the render thread only clears it, in a cycle that has rebuilt the
\* swapchain.
FlagLockDiscipline == [](FlagUnderLock) /\ [][FlagStep]_vars

\* The render thread holds the lock with the flag set and the rebuild done,
\* about to clear the flag, after a frame was drawn.
FlagClearWitness ==
    /\ pc = "clear"
    /\ lock = "render"
    /\ framebufferResized
    /\ notifier = "idle"
    /\ frames >= 2

(***************************************************************************)
(* Properties of the swapchain rebuild.                                    *)
(***************************************************************************)
RebuildTeardown == <<"framebuffer", "pipeline", "pipelineLayout", "renderPass", "imageView">>

TeardownRank(k) == CHOOSE r \in 1 .. Len(RebuildTeardown) : RebuildTeardown[r] = k

\* The position of the cleanupSwapChain call in a log that has one.
CleanupAt(log) == CHOOSE j \in 1 .. Len(log) : log[j].op = "cleanupSwapChain"

\* C11: a rebuild first waits for the device to be idle, then destroys
\* framebuffers, pipeline, pipeline layout, render pass and image views in
\* that order, then the swapchain as the last object, and only then runs
\* swapchain, image-view, render-pass, pipeline, framebuffer and
\* command-buffer creation in that order, up to the first step that returns
\* an error; nothing is executing on the GPU when the swapchain-scoped
\* objects are destroyed.
RebuildInOrder ==
    Rebuilds(cycle) >= 1 =>
        LET j == CleanupAt(cycle)
            torn == cycle[j].args
            steps == StepsRun(swapChainFault)
            built == SubSeq(Ops(cycle), j + 1, j + steps)
        IN /\ j = 3
           /\ cycle[j - 1].op = "DeviceWaitIdle"
           /\ \A a, b \in 1 .. Len(torn) :
                  (a < b /\ torn[a].obj.kind \in Range(RebuildTeardown)
                         /\ torn[b].obj.kind \in Range(RebuildTeardown))
                      => TeardownRank(torn[a].obj.kind) <= TeardownRank(torn[b].obj.kind)
           /\ torn # <<>> /\ torn[Len(torn)].obj.kind = "swapChain"
           /\ \A a \in 1 .. (Len(torn) - 1) : torn[a].obj.kind # "swapChain"
           /\ built = SubSeq(BuildSteps, 1, steps)
           /\ Len(cycle) > j + steps => cycle[j + steps + 1].op = "clearFlag"
           /\ pc = "clear" => inFlight = <<>>

\* A rebuild was done for a swapchain of two images after a frame was drawn.
RebuildInOrderWitness ==
    /\ pc = "clear"
    /\ Rebuilds(cycle) = 1
    /\ frames >= 2
    /\ Len(cycle[CleanupAt(cycle)].args) = 3 * 2 + 4

\* C12: after New and after every rebuild each swapchain image has exactly
\* one image view, one framebuffer and one recorded command buffer (the four
\* counts are equal and the objects exist), all of them built for the
\* current swapchain, with its format and extent.
SwapChainObjectsMatchImages ==
    (phase = "running" /\ pc # "panic") =>
        /\ swapChainImageViews = images
        /\ Len(swapChainFramebuffers) = images
        /\ Len(commandBuffers) = images
        /\ (Objs("imageView", images) \cup Objs("framebuffer", images)
                \cup Objs("commandBuffer", images)) \subseteq alive
        /\ \A j \in 1 .. Len(swapChainFramebuffers) : swapChainFramebuffers[j] = "current"
        /\ \A j \in 1 .. Len(commandBuffers) :
               commandBuffers[j].extent = "current" /\ commandBuffers[j].recorded

\* C13: the swapchain-scoped state is fully built or not used: a cycle
\* acquires, submits or presents only when every call of the last build or
\* rebuild of the swapchain has succeeded.
NoFrameOnFailedBuild ==
    (Called(cycle, "AcquireNextImage") \/ Called(cycle, "QueueSubmit")
        \/ Called(cycle, "QueuePresent")) => swapChainFault = "none"

\* C14: in every state after New, also after a rebuild that changes the
\* image count, there are as many descriptor sets and as many uniform
\* buffers as swapchain images.
DescriptorSetsMatchImages ==
    phase = "running" => (Len(descriptorSets) = images /\ uniformBuffers = images)

\* The textures the descriptor set bound by the command buffer of image k
\* references at binding 1.
TexturesBound(k) == descriptorSets[commandBuffers[k + 1].descriptorSet + 1].textures

\* C15: the descriptor sets are rebuilt after every Load, Unload and rebuild
\* before the next submission: the descriptor set of a command buffer that
\* has just been submitted references no destroyed texture and binds every
\* texture of the registry.
SubmittedSetsBindRegistry ==
    pc = "present" =>
        /\ \A t \in TexturesBound(imageIndex) : Obj("texture", t) \in alive
        /\ \A u \in DOMAIN registry : registry[u] \in TexturesBound(imageIndex)

\* A command buffer was submitted whose descriptor set references a
\* texture that Unload destroyed.
SubmittedSetBindsDestroyedTexture ==
    /\ pc = "present"
    /\ \E t \in TexturesBound(imageIndex) : Obj("texture", t) \notin alive

(***************************************************************************)
(* Properties of Cleanup.                                                  *)
(***************************************************************************)
\* The stage of the teardown order a call belongs to.
StageOf(d) ==
    IF d.call = "DeviceWaitIdle" THEN "waitIdle"
    ELSE IF d.obj.kind \in {"imageAvailableSemaphore", "renderFinishedSemaphore",
                            "inFlightFence"} THEN "sync"
    ELSE IF d.obj.kind \in {"uniformBuffer", "uniformBufferMemory"} THEN "uniformBuffers"
    ELSE IF d.obj.kind \in {"indexBuffer", "indexBufferMemory"} THEN "indexBuffer"
    ELSE IF d.obj.kind \in {"vertexBuffer", "vertexBufferMemory"} THEN "vertexBuffer"
    ELSE d.obj.kind

TeardownOrder ==
    <<"waitIdle", "sync", "commandPool", "descriptorPool", "descriptorSetLayout",
      "uniformBuffers", "indexBuffer", "vertexBuffer", "texture", "framebuffer", "pipeline",
      "pipelineLayout", "renderPass", "imageView", "swapChain", "surface", "device",
      "instance">>

InOrder(s) == \E r \in 1 .. Len(TeardownOrder) : TeardownOrder[r] = s
Rank(s) == CHOOSE r \in 1 .. Len(TeardownOrder) : TeardownOrder[r] = s

\* C9: Cleanup destroys in the order wait idle, semaphores and fences,
\* command pool, descriptor pool, descriptor set layouts, uniform buffers,
\* index buffer, vertex buffer, textures, framebuffers, pipeline, pipeline
\* layout, render pass, image views, swapchain, surface, device, instance:
\* no call of a later stage comes before a call of an earlier one.
CleanupInTeardownOrder ==
    phase = "cleaned" =>
        \A a, b \in 1 .. Len(destroyLog) :
            (a < b /\ InOrder(StageOf(destroyLog[a])) /\ InOrder(StageOf(destroyLog[b])))
                => Rank(StageOf(destroyLog[a])) <= Rank(StageOf(destroyLog[b]))

\* C10: after Cleanup every GPU object created by New or by a texture load
\* is destroyed, so the device was destroyed with nothing created from it
\* left alive.
CleanupDestroysEverything == phase = "cleaned" => alive = {}

\* C19: a texture Load whose upload fails (staging buffer, image creation,
\* memory type, allocation or binding) returns an error to its caller: the
\* process is never ended by a panic raised inside Load.
LoadFailureReturnsError == panicAt # "Load"

\* C20: Load of a url with the .svg extension is rejected in every state,
\* before New as well as after it: no .svg url is ever accepted into the
\* queue of images to decode later.
SvgLoadRejected == \A j \in 1 .. Len(imagesToAdd) : getExt(imagesToAdd[j]) # ".svg"

(***************************************************************************)
(* Properties of the texture queue and of the staged uploads.              *)
(***************************************************************************)
\* A step of Load taken while no render system exists.
LoadBeforeNew ==
    theRenderSystem = "nil" /\ theRenderSystem' = "nil" /\ imagesToAdd' # imagesToAdd

\* A step of New that returns.
NewReturns == phase = "none" /\ phase' = "running"

\* C21: a Load while no render system exists appends its url to the queue,
\* returns nil and leaves the registry alone; a New that returns has
\* requested the upload of every queued url, with the device and the
\* command pool created, one texture for each, and has left the queue empty.
QueuedThenUploaded ==
    [][/\ LoadBeforeNew =>
            /\ \E url \in Urls : imagesToAdd' = Append(imagesToAdd, url)
            /\ registry' = registry
            /\ nextTex' = nextTex
            /\ pc' = pc
       /\ NewReturns =>
            /\ imagesToAdd' = <<>>
            /\ \A j \in 1 .. Len(imagesToAdd) : imagesToAdd[j] \in DOMAIN registry'
            /\ nextTex' = nextTex + Len(imagesToAdd)
            /\ {Obj("device", 0), Obj("commandPool", 0)} \subseteq alive']_vars

\* New has returned after uploading a queued texture: the descriptor sets it
\* wrote bind the texture.
QueuedThenUploadedWitness ==
    /\ phase = "running"
    /\ imagesToAdd = <<>>
    /\ descriptorSets # <<>>
    /\ descriptorSets[1].textures # {}

\* The step of the staging protocol a logged call completes, 0 for a call
\* that completes none: 1 staging buffer created, 2 mapped, 3 bytes copied,
\* 4 unmapped, 5 device-local destination created, 6 one-time copy
\* submitted, 7 queue-idle wait returned, 8 staging buffer destroyed.
ProtocolStep(e) ==
    LET c == e.made IN
    IF ~e.ok THEN 0
    ELSE IF c.on = "staging" /\ c.call = "BindBufferMemory" THEN 1
    ELSE IF c.call = "MapMemory" THEN 2
    ELSE IF c.call = "Memcopy" THEN 3
    ELSE IF c.call = "UnmapMemory" THEN 4
    ELSE IF c.on # "staging" /\ c.call \in {"BindBufferMemory", "BindImageMemory"} THEN 5
    ELSE IF c.stmt \in {"copyBuffer", "copyBufferToImage"} /\ c.call = "QueueSubmit" THEN 6
    ELSE IF c.stmt \in {"copyBuffer", "copyBufferToImage"} /\ c.call = "QueueWaitIdle" THEN 7
    ELSE IF c.on = "staging" /\ c.call = "DestroyBuffer" THEN 8
    ELSE 0

CompletesStep(e) == ProtocolStep(e) > 0
ProtocolSteps(log) ==
    LET done == SelectSeq(log, CompletesStep) IN [j \in 1 .. Len(done) |-> ProtocolStep(done[j])]

\* C22: a vertex, index or texture upload runs the steps of the staging
\* protocol in order (staging buffer, map, copy bytes, unmap, destination,
\* submit the one-time copy, wait for the queue, free the staging buffer):
\* the steps completed so far are the first k of the protocol, so that the
\* staging buffer is destroyed only after the copy was submitted and waited
\* for.
StagedUploadInOrder ==
    \A j \in 1 .. Len(ProtocolSteps(uploadLog)) : ProtocolSteps(uploadLog)[j] = j

\* The commands of an upload log, in the order they were recorded.
IsCommand(e) ==
    e.made.call \in {"CmdCopyBuffer", "CmdPipelineBarrier", "CmdCopyBufferToImage"}
Commands(log) ==
    LET cmds == SelectSeq(log, IsCommand)
    IN [j \in 1 .. Len(cmds) |-> <<cmds[j].made.call, cmds[j].made.old, cmds[j].made.new>>]
Position(log, call, n) ==
    CHOOSE j \in 1 .. Len(log) :
        /\ log[j].made.call = call
        /\ Cardinality({i \in 1 .. j : log[i].made.call = call}) = n

Preferred == SurfaceFormat("B8g8r8Unorm", "SrgbNonlinear")
Asked == createInfos[Len(createInfos)]
AskedFormat == SurfaceFormat(Asked.imageFormat, Asked.imageColorSpace)
Contains(list, x) == \E j \in 1 .. Len(list) : list[j] = x

\* C24: when the list of supported formats contains the pair (B8G8R8_UNORM,
\* SRGB_NONLINEAR), at whatever position, the format asked for is that pair.
PreferredFormatChosen ==
    (createInfos # <<>> /\ Contains(details.formats, Preferred)) => AskedFormat = Preferred

\* The preferred pair was chosen from a list in which it is not the first.
PreferredFormatChosenWitness ==
    /\ createInfos # <<>>
    /\ Contains(details.formats, Preferred)
    /\ details.formats[1] # Preferred
    /\ AskedFormat = Preferred

\* C25: for a list whose only entry has the format undefined the format
\* asked for is the default (B8G8R8_UNORM, SRGB_NONLINEAR), never undefined;
\* for every other list without the preferred pair it is the first entry.
FormatFallback ==
    createInfos # <<>> =>
        /\ (Len(details.formats) = 1 /\ details.formats[1].format = "Undefined")
             => AskedFormat = Preferred
        /\ (~(Len(details.formats) = 1 /\ details.formats[1].format = "Undefined")
             /\ ~Contains(details.formats, Preferred))
             => AskedFormat = details.formats[1]

\* The default was chosen for the list of the single undefined format.
FormatFallbackWitness ==
    /\ createInfos # <<>>
    /\ Len(details.formats) = 1
    /\ details.formats[1].format = "Undefined"
    /\ AskedFormat = Preferred

\* C26: the present mode asked for is Mailbox when the list contains
\* Mailbox, Immediate when it contains Immediate and no Mailbox, and Fifo
\* otherwise, whatever the order of the list.
PresentModeChosen ==
    createInfos # <<>> =>
        Asked.presentMode =
            IF Contains(details.presentModes, "Mailbox") THEN "Mailbox"
            ELSE IF Contains(details.presentModes, "Immediate") THEN "Immediate"
            ELSE "Fifo"

\* Mailbox was chosen from a list that reports Immediate before it.
PresentModeChosenWitness ==
    /\ createInfos # <<>>
    /\ Len(details.presentModes) > 1
    /\ details.presentModes[1] = "Immediate"
    /\ Contains(details.presentModes, "Mailbox")
    /\ Asked.presentMode = "Mailbox"

LessEq(a, b) == ~Less(b, a)
Indefinite == details.capabilities.currentExtent.width = MaxUint32

\* C27 as stated: with no definite current extent the extent asked for lies
\* between minImageExtent and maxImageExtent on each axis, for any reported
\* minimum and maximum.
ExtentWithinAnyBounds ==
    (createInfos # <<>> /\ Indefinite) =>
        /\ LessEq(details.capabilities.minImageExtent.width, Asked.imageExtent.width)
        /\ LessEq(Asked.imageExtent.width, details.capabilities.maxImageExtent.width)
        /\ LessEq(details.capabilities.minImageExtent.height, Asked.imageExtent.height)
        /\ LessEq(Asked.imageExtent.height, details.capabilities.maxImageExtent.height)

\* C27, amended: with no definite current extent the extent asked for lies
\* between minImageExtent and maxImageExtent on every axis on which the
\* reported minimum does not exceed the reported maximum; on an axis where
\* it does, the extent asked for is the minimum.
ExtentWithinBounds ==
    (createInfos # <<>> /\ Indefinite) =>
        /\ IF LessEq(details.capabilities.minImageExtent.width,
                     details.capabilities.maxImageExtent.width)
           THEN /\ LessEq(details.capabilities.minImageExtent.width,
                          Asked.imageExtent.width)
                /\ LessEq(Asked.imageExtent.width,
                          details.capabilities.maxImageExtent.width)
           ELSE Asked.imageExtent.width = details.capabilities.minImageExtent.width
        /\ IF LessEq(details.capabilities.minImageExtent.height,
                     details.capabilities.maxImageExtent.height)
           THEN /\ LessEq(details.capabilities.minImageExtent.height,
                          Asked.imageExtent.height)
                /\ LessEq(Asked.imageExtent.height,
                          details.capabilities.maxImageExtent.height)
           ELSE Asked.imageExtent.height = details.capabilities.minImageExtent.height

\* A canvas narrower than the minimum and taller than the maximum was
\* clamped on both axes.
ExtentWithinBoundsWitness ==
    /\ createInfos # <<>>
    /\ Indefinite
    /\ Less(window.width, details.capabilities.minImageExtent.width)
    /\ LessEq(details.capabilities.minImageExtent.width,
              details.capabilities.maxImageExtent.width)
    /\ Less(details.capabilities.maxImageExtent.height, window.height)
    /\ LessEq(details.capabilities.minImageExtent.height,
              details.capabilities.maxImageExtent.height)
    /\ Asked.imageExtent = Extent2D(details.capabilities.minImageExtent.width,
                                    details.capabilities.maxImageExtent.height)

\* C28: the image count asked for is the smaller of minImageCount + 1 and
\* maxImageCount when maxImageCount is above 0, and minImageCount + 1 when
\* maxImageCount is 0, for every 32-bit minImageCount and maxImageCount;
\* minImageCount + 1 is the number, which no uint32 holds when minImageCount
\* is the largest one.
ImageCountAsked ==
    createInfos # <<>> =>
        LET lo == details.capabilities.minImageCount
            hi == details.capabilities.maxImageCount
        IN IF Less(Zero, hi) /\ LessEq(hi, lo)
           THEN Asked.minImageCount = hi
           ELSE lo # MaxUint32 /\ Asked.minImageCount = AddU32(lo, One)

(***************************************************************************)
(* Properties of the device selection.                                     *)
(***************************************************************************)
\* The checks on the device whose families have been examined: a family
\* that supports graphics, one that can present, every wanted extension,
\* and formats and present modes reported.
PassesChecks ==
    /\ \E j \in 1 .. Len(families) : families[j].graphics
    /\ \E j \in 1 .. Len(families) : families[j].present
    /\ wantedExtensions \subseteq device.availableExtensions
    /\ device.formatCount > 0
    /\ device.presentModeCount > 0

\* A device without queue families passes none of them.
PassedOver == devicePc = "devices" /\ examined' = examined + 1 /\ devicePc' = "devices"

\* C29 as stated: each device that passes the four checks replaces the
\* selection and each other device leaves it, so that the device selected is
\* the last enumerated one that passes; the loop ends in the error exactly
\* when no device passed.
SelectsLastPassing ==
    [][/\ devicePc = "checks" =>
            /\ gpu' = IF PassesChecks THEN examined ELSE gpu
            /\ deviceSelected' = (deviceSelected \/ PassesChecks)
       /\ PassedOver => UNCHANGED <<gpu, deviceSelected>>
       /\ devicePc' = "done" => ((initError' # "none") <=> ~deviceSelected)]_vars

\* C29, amended: the checks a device has to pass include the query of its
\* surface capabilities, which has to succeed.
SelectsLastPassingQueried ==
    [][/\ devicePc = "checks" =>
            /\ gpu' = IF PassesChecks /\ device.capabilitiesOK THEN examined ELSE gpu
            /\ deviceSelected' = (deviceSelected \/ (PassesChecks /\ device.capabilitiesOK))
       /\ PassedOver => UNCHANGED <<gpu, deviceSelected>>
       /\ devicePc' = "done" => ((initError' # "none") <=> ~deviceSelected)
       /\ deviceSelected <=> gpu > 0]_vars

\* The loop has ended with the second of two devices selected, its indices
\* recorded.
SelectsLastPassingWitness ==
    /\ devicePc = "done"
    /\ initError = "none"
    /\ gpu = 2
    /\ examined = 2
    /\ readFrom.graphicsIdx = 2

\* The lowest-numbered family with the property, of the families examined.
FirstFamily(has(_)) ==
    CHOOSE i \in 0 .. (Len(families) - 1) :
        has(families[i + 1]) /\ \A j \in 0 .. (i - 1) : ~has(families[j + 1])
SupportsGraphics(q) == q.graphics
SupportsPresent(q) == q.present

\* C30: for each device examined the graphics index recorded is the
\* lowest-numbered queue family that supports graphics and the present index
\* the lowest-numbered family that can present to the surface.
FirstFamiliesRecorded ==
    devicePc = "checks" =>
        /\ graphicsSupport => graphicsIdx = FirstFamily(SupportsGraphics)
        /\ presentSupport => presentIdx = FirstFamily(SupportsPresent)

\* C35: when the device loop ends with a device selected, the graphics and
\* present indices and each part of details (capabilities, formats, present
\* modes) were read from the selected device, whatever was examined after
\* it.
RecordsOfSelectedDevice ==
    (devicePc = "done" /\ initError = "none") =>
        /\ readFrom.graphicsIdx = gpu
        /\ readFrom.presentIdx = gpu
        /\ readFrom.capabilities = gpu
        /\ readFrom.formats = gpu
        /\ readFrom.presentModes = gpu

(***************************************************************************)
(* Properties of the rebuilt swapchain.                                    *)
(***************************************************************************)
\* C31: the swapchain of every rebuild is asked for with the extent and the
\* image count derived from the capabilities the surface reports when it is
\* rebuilt, not from the record read during device selection.
RebuildUsesCurrentCapabilities ==
    [][createInfos' # createInfos =>
          /\ createInfos'[Len(createInfos')].imageExtent =
                 chooseSwapExtent(surfaceCapabilities, window)
          /\ createInfos'[Len(createInfos')].minImageCount =
                 imageCount(surfaceCapabilities)]_vars

(***************************************************************************)
(* Properties of findMemoryType.                                           *)
(***************************************************************************)
\* The memory types that fit: below the type count, their bit set in
\* typeFilter, their flags including every requested one.
Fitting ==
    {i \in 0 .. (Len(memoryTypes) - 1) :
        i \in typeFilter /\ properties \subseteq memoryTypes[i + 1]}

\* C32: findMemoryType returns the smallest fitting index, and an error
\* exactly when no index fits; a createBuffer that created its buffer
\* returns that error, and otherwise allocates from the smallest fitting
\* index.
SmallestFittingMemoryType ==
    (bufferResults # <<>> /\ bufferResults[1].created) =>
        /\ (bufferResults[1].err = NoMemoryType) <=> (Fitting = {})
        /\ Fitting # {} =>
              /\ bufferResults[1].memoryTypeIndex \in Fitting
              /\ \A i \in Fitting : bufferResults[1].memoryTypeIndex <= i

\* createBuffer allocated from the first of two fitting types.
SmallestFittingMemoryTypeWitness ==
    /\ bufferResults # <<>>
    /\ bufferResults[1].allocated
    /\ Cardinality(Fitting) > 1
    /\ bufferResults[1].memoryTypeIndex \in Fitting

(***************************************************************************)
(* Properties of the texture registry.                                     *)
(***************************************************************************)
LastLoaderCall == loaderCalls[Len(loaderCalls)]
EverLoaded ==
    {loaderCalls[j].url : j \in {k \in 1 .. Len(loaderCalls) :
        loaderCalls[k].op = "Load" /\ loaderCalls[k].err = "none"}}

\* C33: with a render system present, whatever was called before: a Load
\* that returns nil leaves Resource(url) answering a resource whose URL()
\* is url; an Unload that returns leaves Resource(url) answering an error;
\* Resource of a url no Load has stored answers an error; every url is
\* the key of at most one entry, the one carrying it; and a call on one
\* url leaves what Resource answers for every other url as it was.
RegistryLaws ==
    [][loaderCalls' # loaderCalls =>
        LET c == loaderCalls'[Len(loaderCalls')] IN
        /\ (c.op = "Load" /\ c.err = "none") =>
              /\ Resource(resources', c.url).err = "none"
              /\ URL(Resource(resources', c.url).res) = c.url
        /\ (c.op = "Unload" /\ c.err = "none") =>
              Resource(resources', c.url).err # "none"
        /\ (c.op = "Resource" /\ c.url \notin EverLoaded) => c.err # "none"
        /\ (c.op = "Resource" /\ c.err = "none") => URL(c.res) = c.url
        /\ \A u \in DOMAIN resources' : URL(resources'[u]) = u
        /\ \A u \in LoaderUrls \ {c.url} :
              Resource(resources', u) = Resource(resources, u)]_vars

\* Two urls are loaded and Resource of the first answers its entry.
RegistryLawsWitness ==
    /\ Cardinality(DOMAIN resources) = 2
    /\ LastLoaderCall.op = "Resource"
    /\ LastLoaderCall.err = "none"
    /\ \E j \in 1 .. Len(loaderCalls) :
          loaderCalls[j].op = "Load" /\ loaderCalls[j].url = LastLoaderCall.url

\* C34: every registered Texture answers the width and the height of the
\* image it was made from.
TextureRecordsSize ==
    \A u \in DOMAIN resources :
        /\ Width(resources[u].Texture) = decoded[resources[u].Texture.id + 1].width
        /\ Height(resources[u].Texture) = decoded[resources[u].Texture.id + 1].height

\* C38: Unload of a url that is not in the registry, or with no render
\* system, returns: no call of Unload ends in a panic. (An Unload that
\* panics has destroyed nothing and left the registry as it was.)
UnloadOfAbsentReturns == panicAt # "Unload"

(***************************************************************************)
(* Progress of the render thread.                                          *)
(***************************************************************************)
\* C36: a resize signal delivered and not yet seen when an Update returns
\* (or before the first Update), whenever it was delivered, is followed by
\* a call of recreateSwapChain in the next Update, unless the process
\* panics or Cleanup runs before; the run's last Update has no next one.
NoSignalLost ==
    \A c \in 0 .. (MaxFrames - 1) :
        (signals > 0 /\ pc = "idle" /\ phase = "running" /\ frames = c)
            ~> ((pc = "recreate" /\ frames = c + 1) \/ pc = "panic" \/ phase # "running")

\* An Update after the first is about to rebuild for the signals delivered
\* since the Update before it.
NoSignalLostWitness ==
    /\ pc = "recreate"
    /\ observed = MaxSignals
    /\ frames > 1

\* C37: with the GPU completing every submission and the listener
\* releasing the lock, an Update that has begun returns (or panics on a
\* failed call): it is never held for ever at the fence wait, at the
\* device wait of a rebuild or anywhere else, and the lock the listener
\* holds becomes free.
UpdateTerminates ==
    /\ (pc \notin {"idle", "panic"}) ~> (pc \in {"idle", "panic"})
    /\ (pc = "waitFence") ~> (pc = "acquire")
    /\ (lock = "notifier") ~> (lock = "free")

\* The second Update, after a first that rebuilt and submitted nothing, is
\* past its fence wait.
UpdateTerminatesWitness ==
    /\ frames = 2
    /\ currentFrame = 0
    /\ pc = "acquire"
    /\ inFlight = <<>>

(***************************************************************************)
(* Properties of the active instance.                                      *)
(***************************************************************************)
\* C39: once a RenderSystem is the active instance it stays the active
\* instance, and a New on a second RenderSystem creates and destroys no
\* object, registers no listener and changes nothing of the first.
OneActiveInstance ==
    [][/\ theRenderSystem # "nil" => theRenderSystem' = theRenderSystem
       /\ ignoredNews' # ignoredNews => UNCHANGED renderVars]_vars

\* New has been called on a second RenderSystem while the first renders.
OneActiveInstanceWitness ==
    /\ ignoredNews > 0
    /\ phase = "running"
    /\ frames > 0

\* C40: after Cleanup theRenderSystem no longer refers to the RenderSystem
\* torn down, and no call is made on the destroyed device.
NoUseAfterCleanup ==
    /\ phase = "cleaned" => theRenderSystem = "nil"
    /\ staleCalls = {}
====
